---- MODULE Spec2Model ----
(***************************************************************************)
(* NeuroSync (src/neurosync.py): the session store, its importers, the     *)
(* metric projection and the two renderers, as a state machine.            *)
(*                                                                         *)
(* Python values are records [k, n, s]: k is the Python type ("int",       *)
(* "float", "nan" for the float NaN, "str", "none"), n the number and s    *)
(* the text.  Floats are integer-valued; text is a TLA+ string, read       *)
(* character by character with SubSeq.  A Session is its instance          *)
(* dictionary: a function from attribute names to values.                  *)
(***************************************************************************)
EXTENDS Integers, Sequences, FiniteSets, TLC

VARIABLES
    sessions,           \* NeuroSyncApp.sessions: the Store
    current_idx,        \* NeuroSyncApp.current_idx
    timeline_metric,    \* NeuroSyncApp.timeline_metric (StringVar)
    session_count_var,  \* the number shown by the "Sessions: N" label
    timeline,           \* what TimelineCanvas shows after its last draw
    brainbar,           \* what BrainwaveBar shows after its last draw
    disk,               \* the file written by the last successful export_json
    op,                 \* the handler that ran last
    arg,                \* its input (file content, dialog entries, index)
    ret,                \* its outcome: message boxes shown, escaped exception
    processing,         \* CSVChunkerGUI.processing (JSONSMOOSHER.py)
    task_queue,         \* CSVChunkerGUI.task_queue: the messages not yet taken
    workers,            \* the threads start_chunking has started, in order
    polls,              \* the threads a check_thread_status call is scheduled for
    ui_thread,          \* where the UI thread is inside check_thread_status
    status_var,         \* CSVChunkerGUI.status_var: the status line
    scan_btn,           \* JsonForgeGUI.scan_btn: its state option
    forge_btn,          \* JsonForgeGUI.forge_btn: its state option
    input_var,          \* JsonForgeGUI.input_var: the folder entry
    output_var,         \* JsonForgeGUI.output_var: the output file entry
    json_files,         \* JsonForgeGUI.json_files: the list of the last scan
    total_files,        \* JsonForgeGUI.total_files
    forge_threads,      \* the threads start_forge has started, in order
    after_calls,        \* the calls root.after has scheduled and not yet run
    source_path,        \* GuaranteedFileSifter.source_path (kairosfilesifter.py)
    target_path,        \* GuaranteedFileSifter.target_path
    sifter_btns,        \* the state options of scan_btn and sort_btn
    source_dir,         \* the entries of the source folder
    target_folders,     \* the sub-folders of the destination folder
    target_dir,         \* the entries of the destination's sub-folders
    elsewhere           \* the files written outside both folders

\* The variables of the CSV chunker, a program of its own.
chunker_vars == <<processing, task_queue, workers, polls, ui_thread, status_var>>

\* The variables of the JSON forge, a program of its own.
forge_vars == <<scan_btn, forge_btn, input_var, output_var, json_files, total_files,
                forge_threads, after_calls>>

\* The variables of the file sifter, a program of its own.
sifter_vars == <<source_path, target_path, sifter_btns, source_dir, target_folders,
                 target_dir, elsewhere>>

\* The variables of NeuroSync.
neurosync_vars == <<sessions, current_idx, timeline_metric, session_count_var, timeline,
                    brainbar, disk>>

\* The programs beside each of them.
beside_neurosync == <<chunker_vars, forge_vars, sifter_vars>>
beside_chunker == <<neurosync_vars, forge_vars, sifter_vars>>
beside_forge == <<neurosync_vars, chunker_vars, sifter_vars>>
beside_sifter == <<neurosync_vars, chunker_vars, forge_vars>>

vars == <<neurosync_vars, op, arg, ret, chunker_vars, forge_vars, sifter_vars>>

\* CSVChunkerGUI.__init__: nothing in progress, no thread started.
ChunkerInit ==
    /\ processing = FALSE
    /\ task_queue = <<>>
    /\ workers = <<>>
    /\ polls = {}
    /\ ui_thread = [at |-> "idle", thread |-> 0]
    /\ status_var = [text |-> "READY", chunks |-> 0]

\* JsonForgeGUI.__init__ and setup_gui: both buttons are created disabled,
\* the folder entry is empty, nothing is scanned and no thread is started.
ForgeInit ==
    /\ scan_btn = "disabled"
    /\ forge_btn = "disabled"
    /\ input_var = ""
    /\ output_var = "DODECAGONE_FORGED.json"
    /\ json_files = <<>>
    /\ total_files = 0
    /\ forge_threads = <<>>
    /\ after_calls = <<>>

\* GuaranteedFileSifter.__init__ and setup_ui: no folder is chosen and both
\* buttons are disabled; the two folders of these runs are empty.
SifterInit ==
    /\ source_path = ""
    /\ target_path = ""
    /\ sifter_btns = [scan |-> "disabled", sort |-> "disabled"]
    /\ source_dir = {}
    /\ target_folders = {}
    /\ target_dir = {}
    /\ elsewhere = {}

\* ------------------------------------------------------------------ bounds

MaxSessions == 2
MaxRows == 2

\* ------------------------------------------------------------- Python text

RECURSIVE Chars(_)
\* The characters of a text, as a sequence of one-character strings.
Chars(t) == IF t = "" THEN <<>> ELSE <<SubSeq(t, 1, 1)>> \o Chars(Tail(t))

UpperCase == "ABCDEFGHIJKLMNOPQRSTUVWXYZ"
LowerCase == "abcdefghijklmnopqrstuvwxyz"

\* str.lower() of one character.
LowerChar(c) ==
    IF \E i \in 1..Len(UpperCase) : SubSeq(UpperCase, i, i) = c
    THEN LET i == CHOOSE j \in 1..Len(UpperCase) : SubSeq(UpperCase, j, j) = c
         IN  SubSeq(LowerCase, i, i)
    ELSE c

RECURSIVE Lower(_)
\* str.lower()
Lower(t) == IF t = "" THEN "" ELSE LowerChar(SubSeq(t, 1, 1)) \o Lower(Tail(t))

IsSpace(c) == c \in {" ", "\n", "\t", "\r"}

RECURSIVE LStrip(_)
LStrip(t) == IF t # "" /\ IsSpace(SubSeq(t, 1, 1)) THEN LStrip(Tail(t)) ELSE t

RECURSIVE RStrip(_)
RStrip(t) ==
    IF t # "" /\ IsSpace(SubSeq(t, Len(t), Len(t)))
    THEN RStrip(SubSeq(t, 1, Len(t) - 1)) ELSE t

\* str.strip()
Strip(t) == RStrip(LStrip(t))

\* Python's `w in t` for two texts.
Contains(t, w) ==
    \E i \in 1..(Len(t) - Len(w) + 1) : SubSeq(t, i, i + Len(w) - 1) = w

StartsWith(t, w) == Len(t) >= Len(w) /\ SubSeq(t, 1, Len(w)) = w

EndsWith(t, w) == Len(t) >= Len(w) /\ SubSeq(t, Len(t) - Len(w) + 1, Len(t)) = w

RECURSIVE Split(_, _)
\* str.split(sep) for a non-empty separator: always at least one piece.
Split(t, sep) ==
    IF ~Contains(t, sep) THEN <<t>>
    ELSE LET i == CHOOSE j \in 1..(Len(t) - Len(sep) + 1) :
                     /\ SubSeq(t, j, j + Len(sep) - 1) = sep
                     /\ \A h \in 1..(j - 1) : SubSeq(t, h, h + Len(sep) - 1) # sep
         IN  <<SubSeq(t, 1, i - 1)>> \o Split(SubSeq(t, i + Len(sep), Len(t)), sep)

Digits == "0123456789"

IsDigit(c) == \E i \in 1..10 : SubSeq(Digits, i, i) = c

DigitValue(c) == (CHOOSE i \in 1..10 : SubSeq(Digits, i, i) = c) - 1

\* A non-empty run of decimal digits.
IsDigits(t) == t # "" /\ \A i \in 1..Len(t) : IsDigit(SubSeq(t, i, i))

RECURSIVE DigitsValue(_)
DigitsValue(t) ==
    IF t = "" THEN 0
    ELSE 10 * DigitsValue(SubSeq(t, 1, Len(t) - 1)) + DigitValue(SubSeq(t, Len(t), Len(t)))

RECURSIVE NatText(_)
\* str(n) for n >= 0.
NatText(n) ==
    IF n < 10 THEN SubSeq(Digits, n + 1, n + 1)
    ELSE NatText(n \div 10) \o SubSeq(Digits, (n % 10) + 1, (n % 10) + 1)

\* str(n) for an int n.
IntText(n) == IF n < 0 THEN "-" \o NatText(0 - n) ELSE NatText(n)

\* An optionally signed run of digits.
IsIntText(t) ==
    \/ IsDigits(t)
    \/ /\ Len(t) >= 2
       /\ SubSeq(t, 1, 1) \in {"-", "+"}
       /\ IsDigits(Tail(t))

IntValue(t) ==
    IF SubSeq(t, 1, 1) = "-" THEN 0 - DigitsValue(Tail(t))
    ELSE IF SubSeq(t, 1, 1) = "+" THEN DigitsValue(Tail(t))
    ELSE DigitsValue(t)

\* ----------------------------------------------------------- Python values

PyInt(n) == [k |-> "int", n |-> n, s |-> ""]
PyFloat(n) == [k |-> "float", n |-> n, s |-> ""]
PyNaN == [k |-> "nan", n |-> 0, s |-> ""]
PyStr(t) == [k |-> "str", n |-> 0, s |-> t]
PyNone == [k |-> "none", n |-> 0, s |-> ""]

\* A float from 2^53 = 9007199254740992 on, where doubles are two apart:
\* Big(j) is 2^53 + 2j.  Every other float of the model is a whole number
\* far below 2^53.
Big(j) == [k |-> "big", n |-> j, s |-> ""]

\* int or float, NaN included.
IsNumber(v) == v.k \in {"int", "float", "big", "nan"}

\* int or float with a value.
IsFinite(v) == v.k \in {"int", "float", "big"}

\* 1 for the floats from 2^53 on, 0 for the numbers below.
Rank(v) == IF v.k = "big" THEN 1 ELSE 0

\* Python's a > b for two numbers: False as soon as one is NaN.
Gt(a, b) ==
    /\ IsFinite(a)
    /\ IsFinite(b)
    /\ Rank(a) > Rank(b) \/ (Rank(a) = Rank(b) /\ a.n > b.n)

\* Python's a == b: NaN is equal to nothing, 0 == 0.0.
PyEq(a, b) ==
    IF IsNumber(a) /\ IsNumber(b)
    THEN IsFinite(a) /\ IsFinite(b) /\ Rank(a) = Rank(b) /\ a.n = b.n
    ELSE a = b

\* v + 1 in double arithmetic: exact below 2^53; from there on v + 1 lies
\* half way between two doubles and is rounded to the one with the even
\* mantissa, which is v itself when j is even.
AddOne(v) ==
    IF v.k = "big" THEN (IF v.n % 2 = 0 THEN v ELSE Big(v.n + 1))
    ELSE [v EXCEPT !.n = v.n + 1]

\* bool(v)
Truthy(v) ==
    CASE v.k = "none" -> FALSE
      [] v.k = "str" -> v.s # ""
      [] v.k = "nan" -> TRUE
      [] v.k = "big" -> TRUE
      [] OTHER -> v.n # 0

\* What a raising call returns here: the exception's class, "" for none.
Raised(r) == r.exc # ""

\* A decimal literal whose fraction is zero, as "3.0" or "12.": the values
\* of the model are whole, so these are the decimals its texts hold.
IsWholeDecimal(u) ==
    LET parts == Split(u, ".")
    IN  /\ Len(parts) = 2
        /\ IsIntText(parts[1])
        /\ \A i \in 1..Len(parts[2]) : SubSeq(parts[2], i, i) = "0"

\* The sixteen digits of a whole number from 2^53 = 9007199254740992 to
\* 9007199254740999.
IsBigText(u) ==
    /\ Len(u) = 16
    /\ SubSeq(u, 1, 14) = "90071992547409"
    /\ IsDigits(SubSeq(u, 15, 16))
    /\ DigitsValue(SubSeq(u, 15, 16)) >= 92

\* float() of such a text: the nearest double, the one with the even
\* mantissa when the number lies half way between two.
BigValue(u) ==
    LET r == DigitsValue(SubSeq(u, 15, 16)) - 92
        j == r \div 2
    IN  IF r % 2 = 0 THEN Big(j) ELSE IF j % 2 = 0 THEN Big(j) ELSE Big(j + 1)

\* float(t) for a text t: .exc is "ValueError" when t is no number.  The
\* texts of this model hold no nonzero fraction, exponent or infinity.
ParseFloat(t) ==
    LET u == Strip(t) IN
    IF IsBigText(u) THEN [exc |-> "", val |-> BigValue(u)]
    ELSE IF IsIntText(u) THEN [exc |-> "", val |-> PyFloat(IntValue(u))]
    ELSE IF IsWholeDecimal(u) THEN [exc |-> "", val |-> PyFloat(IntValue(Split(u, ".")[1]))]
    ELSE IF Lower(u) \in {"nan", "+nan", "-nan"} THEN [exc |-> "", val |-> PyNaN]
    ELSE [exc |-> "ValueError", val |-> PyNone]

\* float(v) for a value v.
ToFloat(v) ==
    CASE v.k = "int" -> [exc |-> "", val |-> PyFloat(v.n)]
      [] v.k = "float" -> [exc |-> "", val |-> v]
      [] v.k = "big" -> [exc |-> "", val |-> v]
      [] v.k = "nan" -> [exc |-> "", val |-> v]
      [] v.k = "str" -> ParseFloat(v.s)
      [] OTHER -> [exc |-> "TypeError", val |-> PyNone]

\* ------------------------------------------------------------------ Session

\* The attributes Session.__init__ sets, in its order.
FieldNames ==
    <<"timestamp", "label", "gamma", "beta", "alpha", "theta", "delta",
      "heart_rate", "hrv", "coherence", "flow", "stress", "relaxation",
      "attention", "sanding", "conversation", "platform", "nodes_active">>

Fields == {FieldNames[i] : i \in 1..Len(FieldNames)}

\* Session(): the defaults of __init__.
NewSession ==
    [timestamp |-> PyStr(""), label |-> PyStr(""),
     gamma |-> PyFloat(0), beta |-> PyFloat(0), alpha |-> PyFloat(0),
     theta |-> PyFloat(0), delta |-> PyFloat(0),
     heart_rate |-> PyInt(0), hrv |-> PyInt(0),
     coherence |-> PyFloat(0), flow |-> PyFloat(0),
     stress |-> PyStr("Normal"), relaxation |-> PyInt(0),
     attention |-> PyInt(0), sanding |-> PyFloat(0),
     conversation |-> PyStr(""), platform |-> PyStr(""),
     nodes_active |-> PyStr("")]

\* The methods of class Session: attributes of every instance through its class.
Methods == {"brainwave_dict", "dominant_band", "to_dict", "from_dict", "__init__"}

\* Attributes every object has whose setter takes only a class or a dict.
GuardedAttrs == {"__class__", "__dict__"}

\* Further attributes every instance has through its class (not all of them).
ClassAttrs == Methods \cup GuardedAttrs \cup {"__doc__", "__module__"}

\* hasattr(s, name): the instance dictionary, then the class.
HasAttr(s, name) == name \in DOMAIN s \/ name \in ClassAttrs

\* setattr(s, name, v) on the instance dictionary.
SetAttr(s, name, v) == [a \in DOMAIN s \cup {name} |-> IF a = name THEN v ELSE s[a]]

\* s.m() finds the instance attribute first: a value stored under a method's
\* name is not callable.
Callable(s, m) == m \notin DOMAIN s

BandNames == <<"gamma", "beta", "alpha", "theta", "delta">>

\* Session.brainwave_dict: the five bands in their fixed order.
brainwave_dict(s) == [i \in 1..5 |-> [band |-> BandNames[i], val |-> s[BandNames[i]]]]

RECURSIVE MaxByValue(_, _, _)
\* max(d, key=d.get) from position i on, best being the index kept so far:
\* a later band replaces it only when its value is greater.
MaxByValue(d, i, best) ==
    IF i > Len(d) THEN best
    ELSE MaxByValue(d, i + 1, IF Gt(d[i].val, d[best].val) THEN i ELSE best)

\* The variant that takes a later band on a tie.
MaxByValueLast(d) ==
    LET top == {i \in 1..Len(d) : \A j \in 1..Len(d) : ~Gt(d[j].val, d[i].val)}
    IN  CHOOSE i \in top : \A j \in top : j <= i

\* The band max(d, key=d.get) returns.
MaxBand(d) == MaxByValue(d, 2, 1)

\* any(v > 0 for v in d.values())
AnyPositive(d) == \E i \in 1..Len(d) : Gt(d[i].val, PyInt(0))

\* Session.dominant_band.  A band that is no number makes `v > 0` or the
\* comparison inside max raise TypeError.
dominant_band(s) ==
    IF ~Callable(s, "dominant_band") \/ ~Callable(s, "brainwave_dict")
    THEN [exc |-> "TypeError", val |-> ""]
    ELSE LET d == brainwave_dict(s) IN
         IF \E i \in 1..5 : ~IsNumber(d[i].val) THEN [exc |-> "TypeError", val |-> ""]
         ELSE IF AnyPositive(d) THEN [exc |-> "", val |-> d[MaxBand(d)].band]
         ELSE [exc |-> "", val |-> "none"]

\* A dict (and a JSON object after parsing): its items in insertion order.
\* A parsed JSON value is a record [k, val, pairs]: k = "dict" with its
\* pairs, or k = "val" with a scalar.
PyDict(pairs) == [k |-> "dict", val |-> PyNone, pairs |-> pairs]
PyVal(v) == [k |-> "val", val |-> v, pairs |-> <<>>]

\* The variant that leaves out the last key.
ToDictPairsShort(s) == [i \in 1..(Len(FieldNames) - 1) |-> [key |-> FieldNames[i], val |-> s[FieldNames[i]]]]

\* The items of Session.to_dict's result.
ToDictPairs(s) == [i \in 1..Len(FieldNames) |-> [key |-> FieldNames[i], val |-> s[FieldNames[i]]]]

\* Session.to_dict
to_dict(s) ==
    IF ~Callable(s, "to_dict") THEN [exc |-> "TypeError", val |-> PyDict(<<>>)]
    ELSE [exc |-> "", val |-> PyDict(ToDictPairs(s))]

\* The test `hasattr(s, k)` of from_dict.
Accepts(s, name) == HasAttr(s, name)

RECURSIVE FromDictLoop(_, _)
\* The loop of from_dict over d.items().
FromDictLoop(s, pairs) ==
    IF pairs = <<>> THEN [exc |-> "", val |-> s]
    ELSE LET p == Head(pairs) IN
         IF Accepts(s, p.key)
         THEN IF p.key \in GuardedAttrs THEN [exc |-> "TypeError", val |-> s]
              ELSE FromDictLoop(SetAttr(s, p.key, p.val), Tail(pairs))
         ELSE FromDictLoop(s, Tail(pairs))

\* Session.from_dict(d); d.items() raises AttributeError when d is no dict.
from_dict(d) ==
    IF d.k # "dict" THEN [exc |-> "AttributeError", val |-> NewSession]
    ELSE FromDictLoop(NewSession, d.pairs)

\* ------------------------------------------------------------- BrainwaveBar

BrainbarWidth == 380
BarXStart == 60
BarRightPad == 20

\* max_bar of BrainwaveBar.draw
MaxBar == BrainbarWidth - BarXStart - BarRightPad

RECURSIVE SumBands(_, _)
\* sum(bands.values()) over finite numbers.
SumBands(d, i) == IF i > Len(d) THEN 0 ELSE d[i].val.n + SumBands(d, i + 1)

\* The canvas after delete("all").
BlankCanvas == [exc |-> "", text |-> "", bars |-> <<>>]

\* The test `total == 0` of BrainwaveBar.draw.
TotalIsZero(d) == SumBands(d, 1) = 0

\* BrainwaveBar.draw(session): the text item and the bars on the canvas.  A
\* bar is [band, num, den, filled]: its width is num/den pixels, and the fill
\* rectangle is drawn when the width is positive.  A NaN band makes the
\* total and every width NaN (den = 0 here): the first bar's value text is
\* then placed at a NaN coordinate, which the canvas refuses (strict) or
\* takes, depending on the Tk build.
BrainwaveBarDraw(s, strict) ==
    IF ~Callable(s, "brainwave_dict") THEN [BlankCanvas EXCEPT !.exc = "TypeError"]
    ELSE LET d == brainwave_dict(s) IN
         IF \E i \in 1..5 : ~IsNumber(d[i].val) THEN [BlankCanvas EXCEPT !.exc = "TypeError"]
         ELSE IF \E i \in 1..5 : d[i].val.k = "nan"
         THEN IF strict THEN [BlankCanvas EXCEPT !.exc = "TclError"]
              ELSE [BlankCanvas EXCEPT !.bars =
                       [i \in 1..5 |-> [band |-> d[i].band, num |-> 0, den |-> 0,
                                        filled |-> FALSE]]]
         ELSE IF TotalIsZero(d) THEN [BlankCanvas EXCEPT !.text = "No brainwave data"]
         ELSE LET total == SumBands(d, 1)
                  den == IF total <= 100 THEN 100 ELSE total
              IN  [BlankCanvas EXCEPT !.bars =
                      [i \in 1..5 |-> [band |-> d[i].band,
                                       num |-> d[i].val.n * MaxBar,
                                       den |-> den,
                                       filled |-> d[i].val.n * MaxBar > 0]]]

\* --------------------------------------------------------------- JSON text

\* A JSON file is a record [k, lit, pairs, items]: k = "invalid" for text
\* json.load rejects, "list" with its items, "dict" with its pairs, "lit"
\* with the text of one scalar.  An item is [k, lit, pairs] with k = "dict"
\* or "lit"; a pair is [key, lit].  Scalars are kept as their JSON text.
JsonList(items) == [k |-> "list", lit |-> "", pairs |-> <<>>, items |-> items]
JsonDict(pairs) == [k |-> "dict", lit |-> "", pairs |-> pairs, items |-> <<>>]
JsonLit(lit) == [k |-> "lit", lit |-> lit, pairs |-> <<>>, items |-> <<>>]
JsonInvalid == [k |-> "invalid", lit |-> "", pairs |-> <<>>, items |-> <<>>]
ItemDict(pairs) == [k |-> "dict", lit |-> "", pairs |-> pairs]
ItemLit(lit) == [k |-> "lit", lit |-> lit, pairs |-> <<>>]

Quote == "\""
Backslash == "\\"

RECURSIVE Escape(_)
\* The body of a JSON string for a text.
Escape(t) ==
    IF t = "" THEN ""
    ELSE LET c == SubSeq(t, 1, 1) IN
         (IF c = Quote THEN Backslash \o Quote
          ELSE IF c = Backslash THEN Backslash \o Backslash
          ELSE IF c = "\n" THEN Backslash \o "n"
          ELSE c) \o Escape(Tail(t))

RECURSIVE Unescape(_)
\* The text of a JSON string body.
Unescape(t) ==
    IF t = "" THEN ""
    ELSE IF SubSeq(t, 1, 1) = Backslash /\ Len(t) >= 2
    THEN (IF SubSeq(t, 2, 2) = "n" THEN "\n" ELSE SubSeq(t, 2, 2))
         \o Unescape(SubSeq(t, 3, Len(t)))
    ELSE SubSeq(t, 1, 1) \o Unescape(Tail(t))

\* json.dump of one scalar: an int as its digits, a float by repr (an
\* integer-valued float ends in ".0"), NaN as NaN (allow_nan), None as null.
JsonEncode(v) ==
    CASE v.k = "int" -> IntText(v.n)
      [] v.k = "float" -> IntText(v.n) \o ".0"
      [] v.k = "nan" -> "NaN"
      [] v.k = "str" -> Quote \o Escape(v.s) \o Quote
      [] OTHER -> "null"

\* A JSON integer: digits with an optional minus sign.
IsJsonInt(t) == IsDigits(t) \/ (Len(t) >= 2 /\ SubSeq(t, 1, 1) = "-" /\ IsDigits(Tail(t)))

\* json.load of one scalar; .exc is "JSONDecodeError" for any other text.
JsonDecode(lit) ==
    IF lit = "null" THEN [exc |-> "", val |-> PyNone]
    ELSE IF lit = "NaN" THEN [exc |-> "", val |-> PyNaN]
    ELSE IF Len(lit) >= 2 /\ StartsWith(lit, Quote) /\ EndsWith(lit, Quote)
    THEN [exc |-> "", val |-> PyStr(Unescape(SubSeq(lit, 2, Len(lit) - 1)))]
    ELSE IF IsJsonInt(lit) THEN [exc |-> "", val |-> PyInt(IntValue(lit))]
    ELSE IF EndsWith(lit, ".0") /\ IsJsonInt(SubSeq(lit, 1, Len(lit) - 2))
    THEN [exc |-> "", val |-> PyFloat(IntValue(SubSeq(lit, 1, Len(lit) - 2)))]
    ELSE [exc |-> "JSONDecodeError", val |-> PyNone]

\* json.load of an object's pairs: a key written twice keeps its first place
\* and its last value.
DecodePairs(pairs) ==
    LET firsts == SelectSeq([i \in 1..Len(pairs) |-> i],
                            LAMBDA i : \A j \in 1..(i - 1) : pairs[j].key # pairs[i].key)
        last(key) == CHOOSE j \in 1..Len(pairs) :
                        pairs[j].key = key /\ \A h \in (j + 1)..Len(pairs) : pairs[h].key # key
    IN  [i \in 1..Len(firsts) |->
            [key |-> pairs[firsts[i]].key,
             val |-> JsonDecode(pairs[last(pairs[firsts[i]].key)].lit).val]]

PairsValid(pairs) == \A i \in 1..Len(pairs) : ~Raised(JsonDecode(pairs[i].lit))

ItemValid(it) == IF it.k = "dict" THEN PairsValid(it.pairs) ELSE ~Raised(JsonDecode(it.lit))

DecodeItem(it) ==
    IF it.k = "dict" THEN PyDict(DecodePairs(it.pairs)) ELSE PyVal(JsonDecode(it.lit).val)

\* json.load(f): .val is [k, val, pairs, items] with k = "list", "dict" or
\* "val"; .exc is "JSONDecodeError" when the text is no JSON document.
JsonLoad(doc) ==
    LET bad == [exc |-> "JSONDecodeError",
                val |-> [k |-> "val", val |-> PyNone, pairs |-> <<>>, items |-> <<>>]]
    IN
    CASE doc.k = "list" ->
            IF \A i \in 1..Len(doc.items) : ItemValid(doc.items[i])
            THEN [exc |-> "",
                  val |-> [k |-> "list", val |-> PyNone, pairs |-> <<>>,
                           items |-> [i \in 1..Len(doc.items) |-> DecodeItem(doc.items[i])]]]
            ELSE bad
      [] doc.k = "dict" ->
            IF PairsValid(doc.pairs)
            THEN [exc |-> "",
                  val |-> [k |-> "dict", val |-> PyNone,
                           pairs |-> DecodePairs(doc.pairs), items |-> <<>>]]
            ELSE bad
      [] doc.k = "lit" ->
            IF ~Raised(JsonDecode(doc.lit))
            THEN [exc |-> "",
                  val |-> [k |-> "val", val |-> JsonDecode(doc.lit).val,
                           pairs |-> <<>>, items |-> <<>>]]
            ELSE bad
      [] OTHER -> bad

\* json.dump(data, f) for a list of dicts of scalars.
JsonDump(dicts) ==
    JsonList([i \in 1..Len(dicts) |->
                ItemDict([j \in 1..Len(dicts[i].pairs) |->
                            [key |-> dicts[i].pairs[j].key,
                             lit |-> JsonEncode(dicts[i].pairs[j].val)]])])

\* ---------------------------------------------------------- csv.DictReader

\* A CSV file as csv.reader yields it: a sequence of rows, each a sequence
\* of cell texts; a blank line is the empty row.  The first row, blank or
\* not, gives the field names; a file with no row has none.
HasFieldnames(rows) == rows # <<>>

Fieldnames(rows) == rows[1]

\* The rows DictReader yields: it skips the blank ones.
DataRows(rows) == SelectSeq(Tail(rows), LAMBDA r : r # <<>>)

\* row.get(key, default) on the dict DictReader builds from zip(fieldnames,
\* row): a name written twice keeps the last of its columns, and a column
\* the row is too short for holds None.
RowGet(names, row, key, default) ==
    IF \E j \in 1..Len(names) : names[j] = key
    THEN LET j == CHOOSE h \in 1..Len(names) :
                     names[h] = key /\ \A g \in (h + 1)..Len(names) : names[g] # key
         IN  IF j <= Len(row) THEN PyStr(row[j]) ELSE PyNone
    ELSE default

\* ------------------------------------------------------- load_csv: col_map

NoColumns == [f \in {} |-> ""]

\* The variant of the chain without the `alpha not in hl` test.
HeaderFieldBetaAny(hl) ==
    IF Contains(hl, "gamma") THEN "gamma"
    ELSE IF Contains(hl, "beta") THEN "beta"
    ELSE IF Contains(hl, "alpha") THEN "alpha"
    ELSE IF Contains(hl, "theta") THEN "theta"
    ELSE IF Contains(hl, "delta") THEN "delta"
    ELSE IF (Contains(hl, "heart") /\ Contains(hl, "rate")) \/ hl \in {"hr", "bpm", "heartrate"}
    THEN "heart_rate"
    ELSE IF Contains(hl, "hrv") THEN "hrv"
    ELSE IF Contains(hl, "coherence") THEN "coherence"
    ELSE IF Contains(hl, "flow") /\ ~Contains(hl, "time") THEN "flow"
    ELSE IF Contains(hl, "stress") THEN "stress"
    ELSE IF Contains(hl, "relax") THEN "relaxation"
    ELSE IF Contains(hl, "attention") \/ Contains(hl, "focus") THEN "attention"
    ELSE IF Contains(hl, "time") \/ Contains(hl, "date") \/ Contains(hl, "stamp") THEN "timestamp"
    ELSE ""

\* The if/elif chain of load_csv for one lower-cased, stripped header: the
\* field of the first test that passes, "" when none does.
HeaderField(hl) ==
    IF Contains(hl, "gamma") THEN "gamma"
    ELSE IF Contains(hl, "beta") /\ ~Contains(hl, "alpha") THEN "beta"
    ELSE IF Contains(hl, "alpha") THEN "alpha"
    ELSE IF Contains(hl, "theta") THEN "theta"
    ELSE IF Contains(hl, "delta") THEN "delta"
    ELSE IF (Contains(hl, "heart") /\ Contains(hl, "rate")) \/ hl \in {"hr", "bpm", "heartrate"}
    THEN "heart_rate"
    ELSE IF Contains(hl, "hrv") THEN "hrv"
    ELSE IF Contains(hl, "coherence") THEN "coherence"
    ELSE IF Contains(hl, "flow") /\ ~Contains(hl, "time") THEN "flow"
    ELSE IF Contains(hl, "stress") THEN "stress"
    ELSE IF Contains(hl, "relax") THEN "relaxation"
    ELSE IF Contains(hl, "attention") \/ Contains(hl, "focus") THEN "attention"
    ELSE IF Contains(hl, "time") \/ Contains(hl, "date") \/ Contains(hl, "stamp") THEN "timestamp"
    ELSE ""

\* The variant in which a later time header replaces the timestamp column.
ColMapPutAlways(cm, field, h) ==
    IF field = "" THEN cm
    ELSE [f \in DOMAIN cm \cup {field} |-> IF f = field THEN h ELSE cm[f]]

\* One assignment of the chain: col_map[field] = h, except that the
\* timestamp column is set only while col_map has none.
ColMapPut(cm, field, h) ==
    IF field = "" \/ (field = "timestamp" /\ "timestamp" \in DOMAIN cm) THEN cm
    ELSE [f \in DOMAIN cm \cup {field} |-> IF f = field THEN h ELSE cm[f]]

RECURSIVE ColMapFrom(_, _, _)
\* The loop `for h in reader.fieldnames` from position i on.
ColMapFrom(names, i, cm) ==
    IF i > Len(names) THEN cm
    ELSE ColMapFrom(names, i + 1, ColMapPut(cm, HeaderField(Strip(Lower(names[i]))), names[i]))

\* col_map: field -> the header (as written) of its column.
ColMap(names) == ColMapFrom(names, 1, NoColumns)

\* The fields load_csv parses with float(), in its order.
CsvNumericFields ==
    <<"gamma", "beta", "alpha", "theta", "delta", "heart_rate", "hrv",
      "coherence", "flow", "relaxation", "attention">>

\* f"CSV Import #{count+1}"
CsvLabel(count) == "CSV Import #" \o IntText(count + 1)

\* The variant that stores what float() could not parse.
CsvNumberRaw(cell) ==
    LET text == IF Truthy(cell) THEN cell.s ELSE "0"
    IN  [exc |-> "", val |-> IF Raised(ParseFloat(text)) THEN cell ELSE ParseFloat(text).val]

\* float(row.get(col_map[field], '0') or '0')
CsvNumber(cell) == ParseFloat(IF Truthy(cell) THEN cell.s ELSE "0")

RECURSIVE CsvNumbers(_, _, _, _, _)
\* The loop over the numeric fields for one row: a field keeps its default
\* when it has no column or float() raises ValueError.
CsvNumbers(s, names, row, cm, i) ==
    IF i > Len(CsvNumericFields) THEN s
    ELSE LET field == CsvNumericFields[i]
             r == CsvNumber(RowGet(names, row, cm[field], PyStr("0")))
         IN  CsvNumbers(IF field \in DOMAIN cm /\ ~Raised(r) THEN SetAttr(s, field, r.val) ELSE s,
                        names, row, cm, i + 1)

\* The Session load_csv makes of one row, count rows having been appended
\* by this call.
CsvSession(names, row, cm, count) ==
    LET tskey == IF "timestamp" \in DOMAIN cm THEN cm["timestamp"] ELSE ""
        s1 == [NewSession EXCEPT !.timestamp = RowGet(names, row, tskey, PyStr("")),
                                 !.label = PyStr(CsvLabel(count))]
        s2 == CsvNumbers(s1, names, row, cm, 1)
    IN  IF "stress" \in DOMAIN cm
        THEN [s2 EXCEPT !.stress = RowGet(names, row, cm["stress"], PyStr("Normal"))]
        ELSE s2

\* The sessions the row loop of load_csv appends, in order.
CsvSessions(rows) ==
    LET names == Fieldnames(rows)
        data == DataRows(rows)
        cm == ColMap(names)
    IN  [n \in 1..Len(data) |-> CsvSession(names, data[n], cm, n - 1)]

\* ----------------------------------------------------------- TimelineCanvas

Metrics == {"sanding", "hrv", "heart_rate", "beta", "coherence"}

\* The variant that projects every metric but the named ones onto hrv.
MetricValueElseHrv(s, metric) ==
    CASE metric = "sanding" -> [exc |-> "", val |-> s["sanding"]]
      [] metric = "hrv" -> ToFloat(s["hrv"])
      [] metric = "heart_rate" -> ToFloat(s["heart_rate"])
      [] metric = "beta" -> [exc |-> "", val |-> s["beta"]]
      [] metric = "coherence" -> [exc |-> "", val |-> s["coherence"]]
      [] OTHER -> ToFloat(s["hrv"])

\* The value TimelineCanvas.draw takes from one session for a metric.
MetricValue(s, metric) ==
    CASE metric = "sanding" -> [exc |-> "", val |-> s["sanding"]]
      [] metric = "hrv" -> ToFloat(s["hrv"])
      [] metric = "heart_rate" -> ToFloat(s["heart_rate"])
      [] metric = "beta" -> [exc |-> "", val |-> s["beta"]]
      [] metric = "coherence" -> [exc |-> "", val |-> s["coherence"]]
      [] OTHER -> [exc |-> "", val |-> s["sanding"]]

RECURSIVE PyMax(_, _, _)
\* max(values): a later value replaces the kept one only when it is greater.
PyMax(vs, i, best) ==
    IF i > Len(vs) THEN best ELSE PyMax(vs, i + 1, IF Gt(vs[i], best) THEN vs[i] ELSE best)

RECURSIVE PyMin(_, _, _)
\* min(values): a later value replaces the kept one only when it is smaller.
PyMin(vs, i, best) ==
    IF i > Len(vs) THEN best ELSE PyMin(vs, i + 1, IF Gt(best, vs[i]) THEN vs[i] ELSE best)

LabelEveryUpTo == 20
LabelTarget == 15

\* The variant that takes every ceil(n / 15)-th session when n > 20.
LabelledCeil(i, n) ==
    n <= LabelEveryUpTo \/ i % ((n + LabelTarget - 1) \div LabelTarget) = 0

\* Whether draw writes an x label under point i (0-based) of n.
Labelled(i, n) ==
    n <= LabelEveryUpTo \/ i % (IF n \div LabelTarget >= 1 THEN n \div LabelTarget ELSE 1) = 0

\* The canvas after delete("all").
BlankTimeline ==
    [exc |-> "", text |-> "", points |-> 0, labels |-> {}, lo |-> PyNone, hi |-> PyNone]

\* The y domain [lo, hi] of draw: min and max of the values, the max moved
\* up by one when they are equal.
YDomain(vs) ==
    LET lo == PyMin(vs, 2, vs[1])
        mx == PyMax(vs, 2, vs[1])
    IN  [lo |-> lo, hi |-> IF PyEq(mx, lo) THEN AddOne(lo) ELSE mx]

\* The 0-based indices of the x labels written for the first m of n
\* sessions.
LabelsWritten(m, n) == {i - 1 : i \in {j \in 1..m : Labelled(j - 1, n)}}

\* The x-label statement of session i raises: a truthy timestamp that is no
\* str cannot be sliced.
LabelRaises(sess, i) ==
    /\ Labelled(i - 1, Len(sess))
    /\ Truthy(sess[i]["timestamp"])
    /\ sess[i]["timestamp"].k # "str"

\* The y coordinate of point i is NaN.
YIsNaN(vs, dom, i) == vs[i].k = "nan" \/ dom.lo.k = "nan" \/ dom.hi.k = "nan"

\* Drawing point i raises: dominant_band() raises, or the oval's NaN
\* coordinate is refused.
PointRaises(sess, vs, dom, strict, i) ==
    Raised(dominant_band(sess[i])) \/ (strict /\ YIsNaN(vs, dom, i))

\* The part of draw after the values: the x labels, the connecting line,
\* then the points.  The first y is computed before the first label, and
\* its division raises when max_v - min_v is zero.
TimelineItems(sess, vs, dom, strict) ==
    LET n == Len(sess)
        domain == [BlankTimeline EXCEPT !.lo = dom.lo, !.hi = dom.hi]
    IN
    IF PyEq(dom.hi, dom.lo) THEN [domain EXCEPT !.exc = "ZeroDivisionError"]
    ELSE IF \E i \in 1..n : LabelRaises(sess, i)
    THEN LET f == CHOOSE i \in 1..n :
                      LabelRaises(sess, i) /\ \A j \in 1..(i - 1) : ~LabelRaises(sess, j)
         IN  [domain EXCEPT !.exc = "TypeError", !.labels = LabelsWritten(f - 1, n)]
    ELSE IF strict /\ n >= 2 /\ \E i \in 1..n : YIsNaN(vs, dom, i)
    THEN [domain EXCEPT !.exc = "TclError", !.labels = LabelsWritten(n, n)]
    ELSE IF \E i \in 1..n : PointRaises(sess, vs, dom, strict, i)
    THEN LET f == CHOOSE i \in 1..n :
                      /\ PointRaises(sess, vs, dom, strict, i)
                      /\ \A j \in 1..(i - 1) : ~PointRaises(sess, vs, dom, strict, j)
         IN  [domain EXCEPT !.exc = IF Raised(dominant_band(sess[f])) THEN "TypeError"
                                    ELSE "TclError",
                            !.labels = LabelsWritten(n, n), !.points = f - 1]
    ELSE [domain EXCEPT !.labels = LabelsWritten(n, n), !.points = n]

\* The part of draw from the list of values on: mv[i] is what float() made
\* of session i's metric.  A value that is no number raises in float(),
\* max(), min_v + 1 or max_v - min_v, before any label or point.
TimelinePlot(sess, mv, strict) ==
    IF \E i \in 1..Len(sess) : Raised(mv[i])
    THEN [BlankTimeline EXCEPT !.exc = mv[CHOOSE i \in 1..Len(sess) : Raised(mv[i])].exc]
    ELSE IF \E i \in 1..Len(sess) : ~IsNumber(mv[i].val)
    THEN [BlankTimeline EXCEPT !.exc = "TypeError"]
    ELSE TimelineItems(sess, [i \in 1..Len(sess) |-> mv[i].val],
                       YDomain([i \in 1..Len(sess) |-> mv[i].val]), strict)

\* TimelineCanvas.draw(sessions, metric): the placeholder text, the number
\* of points (ovals) drawn, the 0-based indices of the x labels written and
\* the y domain [lo, hi].  draw stops at the first statement that raises and
\* leaves on the canvas what it drew before.
TimelineDraw(sess, metric, strict) ==
    IF sess = <<>> THEN [BlankTimeline EXCEPT !.text = "No sessions loaded"]
    ELSE TimelinePlot(sess, [i \in 1..Len(sess) |-> MetricValue(sess[i], metric)], strict)

\* The list `values` of draw: .val holds what was appended before float()
\* raised, or all of it.
RECURSIVE Series(_, _, _)
Series(sess, metric, i) ==
    IF i > Len(sess) THEN [exc |-> "", val |-> <<>>]
    ELSE LET v == MetricValue(sess[i], metric) IN
         IF Raised(v) THEN [exc |-> v.exc, val |-> <<>>]
         ELSE LET rest == Series(sess, metric, i + 1)
              IN  [exc |-> rest.exc, val |-> <<v.val>> \o rest.val]

TimelineHeight == 180
PadTop == 20
PadBottom == 30
PlotHeight == TimelineHeight - PadTop - PadBottom

\* A vertical position num/den in pixels from the top; den = 0 for NaN.
Pos(num, den) == [num |-> num, den |-> den]

\* a - b for two finite numbers of the same rank.
Span(a, b) == IF a.k = "big" THEN 2 * (a.n - b.n) ELSE a.n - b.n

\* y = pad_t + plot_h * (1 - (v - min_v) / (max_v - min_v)) as a fraction.
\* Against a domain that reaches from below 2^53 to above it, a value below
\* lies within 1e-10 of the bottom line and one above within 1e-10 of the
\* top line, and is given as on the line.
PointY(v, dom) ==
    IF ~IsFinite(v) \/ ~IsFinite(dom.lo) \/ ~IsFinite(dom.hi) THEN Pos(0, 0)
    ELSE IF Rank(dom.lo) # Rank(dom.hi)
    THEN (IF Rank(v) = 1 THEN Pos(PadTop, 1) ELSE Pos(PadTop + PlotHeight, 1))
    ELSE Pos(PadTop * Span(dom.hi, dom.lo) + PlotHeight * Span(dom.hi, v),
             Span(dom.hi, dom.lo))

\* How many (x, y) the plot loop appends to `points` before it ends or
\* raises: none when the divisor is zero, those up to the session whose
\* label raises, else one per session.
PointCount(sess, dom) ==
    IF PyEq(dom.hi, dom.lo) THEN 0
    ELSE IF \E i \in 1..Len(sess) : LabelRaises(sess, i)
    THEN CHOOSE i \in 1..Len(sess) :
            LabelRaises(sess, i) /\ \A j \in 1..(i - 1) : ~LabelRaises(sess, j)
    ELSE Len(sess)

\* The y of the list `points` that draw builds for the values vs.
PointYs(sess, vs) ==
    IF \E i \in 1..Len(vs) : ~IsNumber(vs[i]) THEN <<>>
    ELSE [i \in 1..PointCount(sess, YDomain(vs)) |-> PointY(vs[i], YDomain(vs))]

\* ------------------------------------------------------------ NeuroSyncApp

\* Whether the vitals part of select_session raises: a format with :.0f or
\* :.2f takes only numbers, and so does `s.sanding < 3`; the heart rate and
\* HRV are formatted only when truthy.
VitalsRaise(s) ==
    \/ Truthy(s["heart_rate"]) /\ ~IsNumber(s["heart_rate"])
    \/ Truthy(s["hrv"]) /\ ~IsNumber(s["hrv"])
    \/ \E f \in {"coherence", "flow", "relaxation", "attention", "sanding"} : ~IsNumber(s[f])

\* select_session(idx) on a non-empty Store: current_idx is set first, then
\* the bars are drawn, then the vitals are written.
SelectSession(sess, idx, strict) ==
    LET s == sess[idx + 1]
        bar == BrainwaveBarDraw(s, strict)
    IN  [exc |-> IF Raised(bar) THEN bar.exc
                 ELSE IF VitalsRaise(s) THEN "TypeError" ELSE "",
         current_idx |-> idx,
         brainbar |-> bar]

\* What refresh() leaves when select_session has run after the drawing tl.
RefreshAfterSelect(tl, sel, n) ==
    [exc |-> sel.exc, session_count_var |-> n, timeline |-> tl,
     current_idx |-> sel.current_idx, brainbar |-> sel.brainbar]

\* refresh() from the timeline's drawing tl on: nothing more when it raised
\* or the Store is empty, else select_session(min(current_idx, len - 1)).
RefreshAfterDraw(tl, sess, cur, strict, oldbar) ==
    IF Raised(tl) \/ sess = <<>>
    THEN [exc |-> tl.exc, session_count_var |-> Len(sess), timeline |-> tl,
          current_idx |-> cur, brainbar |-> oldbar]
    ELSE RefreshAfterSelect(tl,
                            SelectSession(sess,
                                          IF cur < Len(sess) - 1 THEN cur ELSE Len(sess) - 1,
                                          strict),
                            Len(sess))

\* refresh(): the count label, the timeline, then the selection.  What a
\* raising step leaves undone keeps its old value.
Refresh(sess, cur, metric, strict, oldbar) ==
    RefreshAfterDraw(TimelineDraw(sess, metric, strict), sess, cur, strict, oldbar)

\* A message box: its function, its title and the count its text gives.
Box(fn, title, n) == [box |-> fn, title |-> title, n |-> n]

\* The outcome of a handler: the boxes it showed, in order, and the class of
\* the exception that left it ("" when none did).
Outcome(msgs, exc) == [msgs |-> msgs, exc |-> exc]

\* The state of the application a handler works on.
App ==
    [sessions |-> sessions, current_idx |-> current_idx,
     session_count_var |-> session_count_var, timeline |-> timeline,
     brainbar |-> brainbar]

\* A handler's result: the application it leaves, the boxes it showed and
\* the exception that left it.
Result(app, msgs, exc) == [app |-> app, msgs |-> msgs, exc |-> exc]

\* app as the refresh r leaves it.
WithRefresh(app, r) ==
    [exc |-> r.exc,
     app |-> [app EXCEPT !.current_idx = r.current_idx,
                         !.session_count_var = r.session_count_var,
                         !.timeline = r.timeline,
                         !.brainbar = r.brainbar]]

\* self.refresh() on app.
Refreshed(app, metric, strict) ==
    WithRefresh(app, Refresh(app.sessions, app.current_idx, metric, strict, app.brainbar))

ErrorBox == Box("showerror", "Error", 0)

\* The handler's `except Exception` around the box info and the refresh r.
Reported(r, info) ==
    Result(r.app, IF Raised(r) THEN <<info, ErrorBox>> ELSE <<info>>, "")

\* The end every import shares: the box that reports success, refresh(),
\* and the handler's `except Exception` around both.
ReportAndRefresh(app, metric, strict, info) == Reported(Refreshed(app, metric, strict), info)

\* A refresh r that nothing is wrapped around.
Unguarded(r) == Result(r.app, <<>>, r.exc)

\* ---- load_csv

\* A chosen CSV file is [k, rows, broken]: k = "cancel" when the dialog is
\* dismissed, "unreadable" when open() raises, "csv" otherwise with the rows
\* csv.reader yields; broken when the reader raises (a decode error, a
\* csv.Error) after the last of them instead of ending.
CsvFile(rows, broken) == [k |-> "csv", rows |-> rows, broken |-> broken]
Cancelled == [k |-> "cancel"]
Unreadable == [k |-> "unreadable"]

\* The box load_csv reports its count with.
CsvLoadedBox(app, count) == Box("showinfo", "CSV Loaded", count)

\* NeuroSyncApp.load_csv
load_csv(app, metric, file, strict) ==
    CASE file.k = "cancel" -> Result(app, <<>>, "")
      [] file.k = "unreadable" -> Result(app, <<ErrorBox>>, "")
      [] OTHER ->
            IF ~HasFieldnames(file.rows) THEN Result(app, <<ErrorBox>>, "")
            ELSE LET new == CsvSessions(file.rows)
                     app1 == [app EXCEPT !.sessions = app.sessions \o new]
                 IN  IF file.broken THEN Result(app1, <<ErrorBox>>, "")
                     ELSE ReportAndRefresh(app1, metric, strict, CsvLoadedBox(app1, Len(new)))

\* ---- load_json

JsonFile(doc) == [k |-> "json", doc |-> doc]

RECURSIVE FromDicts(_, _)
\* The loop `for d in data: self.sessions.append(Session.from_dict(d))` over
\* a list: the sessions appended before the first from_dict that raises.
FromDicts(items, i) ==
    IF i > Len(items) THEN [exc |-> "", val |-> <<>>]
    ELSE LET r == from_dict(items[i]) IN
         IF Raised(r) THEN [exc |-> r.exc, val |-> <<>>]
         ELSE LET rest == FromDicts(items, i + 1)
              IN  [exc |-> rest.exc, val |-> <<r.val>> \o rest.val]

\* The same loop over whatever json.load returned: a dict yields its keys
\* and a str its characters, none of which has .items(); a number or None
\* cannot be iterated.  .n is len(data).
LoadedSessions(data) ==
    CASE data.k = "list" -> FromDicts(data.items, 1) @@ [n |-> Len(data.items)]
      [] data.k = "dict" ->
            [exc |-> IF data.pairs = <<>> THEN "" ELSE "AttributeError", val |-> <<>>,
             n |-> Len(data.pairs)]
      [] OTHER ->
            [exc |-> IF data.val.k = "str"
                     THEN (IF data.val.s = "" THEN "" ELSE "AttributeError")
                     ELSE "TypeError",
             val |-> <<>>, n |-> Len(data.val.s)]

\* NeuroSyncApp.load_json
load_json(app, metric, file, strict) ==
    CASE file.k = "cancel" -> Result(app, <<>>, "")
      [] file.k = "unreadable" -> Result(app, <<ErrorBox>>, "")
      [] OTHER ->
            LET ld == JsonLoad(file.doc) IN
            IF Raised(ld) THEN Result(app, <<ErrorBox>>, "")
            ELSE LET got == LoadedSessions(ld.val)
                     app1 == [app EXCEPT !.sessions = app.sessions \o got.val]
                 IN  IF Raised(got) THEN Result(app1, <<ErrorBox>>, "")
                     ELSE ReportAndRefresh(app1, metric, strict,
                                           Box("showinfo", "Loaded", got.n))

\* ---- export_json

NoFile == [k |-> "absent", lit |-> "", pairs |-> <<>>, items |-> <<>>]

Writable == [k |-> "ok"]
Unwritable == [k |-> "unwritable"]

\* [s.to_dict() for s in self.sessions]
ToDicts(sess) ==
    IF \E i \in 1..Len(sess) : Raised(to_dict(sess[i]))
    THEN [exc |-> "TypeError", val |-> <<>>]
    ELSE [exc |-> "", val |-> [i \in 1..Len(sess) |-> to_dict(sess[i]).val]]

\* NeuroSyncApp.export_json: .disk is the file it leaves (old when it
\* writes none).
export_json(app, file, old) ==
    IF app.sessions = <<>>
    THEN Result(app, <<Box("showwarning", "Empty", 0)>>, "") @@ [disk |-> old]
    ELSE IF file.k = "cancel" THEN Result(app, <<>>, "") @@ [disk |-> old]
    ELSE LET data == ToDicts(app.sessions) IN
         IF Raised(data) \/ file.k = "unwritable"
         THEN Result(app, <<ErrorBox>>, "") @@ [disk |-> old]
         ELSE Result(app, <<Box("showinfo", "Exported", Len(app.sessions))>>, "")
              @@ [disk |-> JsonDump(data.val)]

\* ---- manual_entry.save

\* The entry fields of the dialog, in its order.
EntryKeys ==
    <<"timestamp", "label", "gamma", "beta", "alpha", "theta", "delta",
      "heart_rate", "hrv", "coherence", "flow", "stress", "relaxation",
      "attention", "sanding", "platform", "nodes_active">>

\* The keys save parses with float().
EntryNumericKeys ==
    {"gamma", "beta", "alpha", "theta", "delta", "heart_rate", "hrv",
     "coherence", "flow", "relaxation", "attention", "sanding"}

\* The value save stores for one entry, whose stripped text is given.
EntryValue(key, text) ==
    IF key \in EntryNumericKeys
    THEN (IF Raised(ParseFloat(text)) THEN PyInt(0) ELSE ParseFloat(text).val)
    ELSE PyStr(text)

RECURSIVE EntrySession(_, _, _)
\* The loop of save over the entries.
EntrySession(s, form, i) ==
    IF i > Len(EntryKeys) THEN s
    ELSE EntrySession(SetAttr(s, EntryKeys[i], EntryValue(EntryKeys[i], Strip(form[EntryKeys[i]]))),
                      form, i + 1)

\* The Session save builds from the dialog: form gives each entry's text
\* and, under "conversation", the text of the conversation box.
FormSession(form) ==
    [EntrySession(NewSession, form, 1) EXCEPT !.conversation = PyStr(Strip(form["conversation"]))]

\* The variant that puts the new session in front of the Store.
saveInFront(app, metric, form, strict) ==
    Unguarded(Refreshed([app EXCEPT !.sessions = <<FormSession(form)>> \o app.sessions],
                        metric, strict))

\* manual_entry's save: nothing catches what refresh() raises.
save(app, metric, form, strict) ==
    Unguarded(Refreshed([app EXCEPT !.sessions = Append(app.sessions, FormSession(form))],
                        metric, strict))

\* ---- load_conversations

\* A chosen conversation file is [k, doc, text]: k = "json" when its path
\* ends in .json (doc is its content), "text" otherwise.
ConvJson(doc) == [k |-> "json", doc |-> doc, text |-> ""]
ConvText(text) == [k |-> "text", doc |-> NoFile, text |-> text]

\* str(v)
StrOf(v) ==
    CASE v.k = "str" -> v.s
      [] v.k = "int" -> IntText(v.n)
      [] v.k = "float" -> IntText(v.n) \o ".0"
      [] v.k = "nan" -> "nan"
      [] OTHER -> "None"

RECURSIVE DumpsLines(_, _)
\* The lines of json.dumps(item, indent=2) between the braces.
DumpsLines(pairs, i) ==
    IF i > Len(pairs) THEN ""
    ELSE "  " \o Quote \o Escape(pairs[i].key) \o Quote \o ": " \o JsonEncode(pairs[i].val)
         \o (IF i < Len(pairs) THEN ",\n" ELSE "\n") \o DumpsLines(pairs, i + 1)

\* json.dumps(item, indent=2) for a dict of scalars.
DumpsIndent(pairs) == IF pairs = <<>> THEN "{}" ELSE "{\n" \o DumpsLines(pairs, 1) \o "}"

HasKey(pairs, key) == \E i \in 1..Len(pairs) : pairs[i].key = key

Get(pairs, key) == pairs[CHOOSE i \in 1..Len(pairs) : pairs[i].key = key].val

\* The variant that looks for text before content.
ItemTextTextFirst(pairs) ==
    IF HasKey(pairs, "text") THEN Get(pairs, "text")
    ELSE IF HasKey(pairs, "content") THEN Get(pairs, "content")
    ELSE PyStr(DumpsIndent(pairs))

\* item.get('content', item.get('text', json.dumps(item, indent=2)))
ItemText(pairs) ==
    IF HasKey(pairs, "content") THEN Get(pairs, "content")
    ELSE IF HasKey(pairs, "text") THEN Get(pairs, "text")
    ELSE PyStr(DumpsIndent(pairs))

\* The list branch: element i goes to session i while there is one; an
\* element that is neither a str nor a dict is passed over.
AttachList(sess, items) ==
    [i \in 1..Len(sess) |->
        IF i > Len(items) THEN sess[i]
        ELSE IF items[i].k = "dict" THEN [sess[i] EXCEPT !.conversation = ItemText(items[i].pairs)]
        ELSE IF items[i].val.k = "str" THEN [sess[i] EXCEPT !.conversation = items[i].val]
        ELSE sess[i]]

RECURSIVE AttachDict(_, _, _)
\* The dict branch, one test `key in s.timestamp` per step, keys outermost:
\* a timestamp that is no str raises TypeError, and what was attached
\* before stays.
AttachDict(sess, pairs, step) ==
    IF step > Len(pairs) * Len(sess) THEN [exc |-> "", val |-> sess]
    ELSE LET p == pairs[((step - 1) \div Len(sess)) + 1]
             i == ((step - 1) % Len(sess)) + 1
             ts == sess[i]["timestamp"]
         IN  IF ts.k # "str" THEN [exc |-> "TypeError", val |-> sess]
             ELSE AttachDict(IF Contains(ts.s, p.key)
                             THEN [sess EXCEPT ![i] = [@ EXCEPT !.conversation = PyStr(StrOf(p.val))]]
                             ELSE sess,
                             pairs, step + 1)

\* The variant that attaches the chunks as they are.
ChunkTextRaw(chunk) == chunk

\* chunk.strip()
ChunkText(chunk) == Strip(chunk)

\* The variant that writes the chunk over the label as well.
AttachTextOverLabel(sess, text) ==
    LET chunks == Split(text, "\n\n")
    IN  [i \in 1..Len(sess) |->
            IF i > Len(chunks) THEN sess[i]
            ELSE [sess[i] EXCEPT !.conversation = PyStr(ChunkText(chunks[i])),
                                 !.label = PyStr(ChunkText(chunks[i]))]]

\* The plain-text branch: chunk i goes to session i while there is one.
AttachText(sess, text) ==
    LET chunks == Split(text, "\n\n")
    IN  [i \in 1..Len(sess) |->
            IF i > Len(chunks) THEN sess[i]
            ELSE [sess[i] EXCEPT !.conversation = PyStr(ChunkText(chunks[i]))]]

\* The sessions load_conversations leaves for a chosen file, with the
\* exception that ended the reading or the attaching.
Attached(sess, file) ==
    CASE file.k = "unreadable" -> [exc |-> "OSError", val |-> sess]
      [] file.k = "text" -> [exc |-> "", val |-> AttachText(sess, file.text)]
      [] OTHER ->
            LET ld == JsonLoad(file.doc) IN
            IF Raised(ld) THEN [exc |-> ld.exc, val |-> sess]
            ELSE IF ld.val.k = "list"
            THEN [exc |-> "", val |-> AttachList(sess, ld.val.items)]
            ELSE IF ld.val.k = "dict" THEN AttachDict(sess, ld.val.pairs, 1)
            ELSE [exc |-> "", val |-> sess]

\* The end of load_conversations: the error box for what was raised, else
\* the box of success and refresh().
ConversationsDone(app, metric, strict, r) ==
    IF Raised(r) THEN Result([app EXCEPT !.sessions = r.val], <<ErrorBox>>, "")
    ELSE ReportAndRefresh([app EXCEPT !.sessions = r.val], metric, strict,
                          Box("showinfo", "Loaded", 0))

\* NeuroSyncApp.load_conversations
load_conversations(app, metric, file, strict) ==
    IF file.k = "cancel" THEN Result(app, <<>>, "")
    ELSE ConversationsDone(app, metric, strict, Attached(app.sessions, file))

\* ---- selection and metric

\* TimelineCanvas._click(idx) -> select_session(idx)
click(app, idx, strict) ==
    IF 0 <= idx /\ idx < Len(app.sessions)
    THEN LET r == SelectSession(app.sessions, idx, strict)
         IN  Result([app EXCEPT !.current_idx = r.current_idx, !.brainbar = r.brainbar],
                    <<>>, r.exc)
    ELSE Result(app, <<>>, "")

\* prev_session without its guard on current_idx: PREV at the first session
\* goes round to the last one.
prev_sessionRound(app, strict) ==
    IF app.sessions = <<>> THEN Result(app, <<>>, "")
    ELSE IF app.current_idx > 0 THEN click(app, app.current_idx - 1, strict)
    ELSE click(app, Len(app.sessions) - 1, strict)

\* NeuroSyncApp.prev_session
prev_session(app, strict) ==
    IF app.sessions # <<>> /\ app.current_idx > 0
    THEN click(app, app.current_idx - 1, strict)
    ELSE Result(app, <<>>, "")

\* NeuroSyncApp.next_session
next_session(app, strict) ==
    IF app.sessions # <<>> /\ app.current_idx < Len(app.sessions) - 1
    THEN click(app, app.current_idx + 1, strict)
    ELSE Result(app, <<>>, "")

\* app with the timeline's drawing tl, which nothing is wrapped around.
Redrawn(app, tl) == Result([app EXCEPT !.timeline = tl], <<>>, tl.exc)

\* NeuroSyncApp.redraw_timeline, the command of the metric radio buttons.
redraw_timeline(app, metric, strict) ==
    Redrawn(app, TimelineDraw(app.sessions, metric, strict))

\* ------------------------------------------------------- the state machine

NoInput == [k |-> "none"]

\* NeuroSyncApp.__init__ and _build_ui: an empty Store, nothing drawn yet.
Init ==
    /\ sessions = <<>>
    /\ current_idx = 0
    /\ timeline_metric = "sanding"
    /\ session_count_var = 0
    /\ timeline = BlankTimeline
    /\ brainbar = BlankCanvas
    /\ disk = NoFile
    /\ op = "init"
    /\ arg = NoInput
    /\ ret = Outcome(<<>>, "")
    /\ ChunkerInit
    /\ ForgeInit
    /\ SifterInit

\* One handler has run on input and left result r.
Do(name, input, r) ==
    /\ sessions' = r.app.sessions
    /\ current_idx' = r.app.current_idx
    /\ session_count_var' = r.app.session_count_var
    /\ timeline' = r.app.timeline
    /\ brainbar' = r.app.brainbar
    /\ op' = name
    /\ arg' = input
    /\ ret' = Outcome(r.msgs, r.exc)
    /\ UNCHANGED beside_neurosync

\* ---- the Session methods on their own

BandValues == {PyFloat(0), PyFloat(5), PyFloat(-1), PyNaN, PyStr("x")}

\* Keys a JSON object may hold beside the bands.
ExtraPairs ==
    { <<>>,
      <<[key |-> "foo", val |-> PyInt(1)]>>,
      <<[key |-> "label", val |-> PyStr("a")], [key |-> "notes", val |-> PyStr("b")]>>,
      <<[key |-> "dominant_band", val |-> PyStr("x")]>>,
      <<[key |-> "brainwave_dict", val |-> PyNone]>>,
      <<[key |-> "__class__", val |-> PyStr("Session")]>> }

\* The dicts from_dict is given: the five bands, then the extra keys.
DictInputs ==
    { PyDict(<<[key |-> "gamma", val |-> g], [key |-> "beta", val |-> b],
               [key |-> "alpha", val |-> a], [key |-> "theta", val |-> h],
               [key |-> "delta", val |-> d]>> \o x) :
        g \in BandValues, b \in BandValues, a \in BandValues, h \in BandValues,
        d \in BandValues, x \in ExtraPairs }

InitSession ==
    /\ sessions = <<>>
    /\ current_idx = 0
    /\ timeline_metric = "sanding"
    /\ session_count_var = 0
    /\ timeline = BlankTimeline
    /\ brainbar = BlankCanvas
    /\ disk = NoFile
    /\ op = "init"
    /\ arg \in DictInputs
    /\ ret = Outcome(<<>>, "")
    /\ ChunkerInit
    /\ ForgeInit
    /\ SifterInit

\* Session.from_dict(arg); its Session joins the Store as in load_json.
CallFromDict ==
    /\ op = "init"
    /\ LET r == from_dict(arg) IN
       /\ sessions' = IF Raised(r) THEN sessions ELSE <<r.val>>
       /\ ret' = r
    /\ op' = "from_dict"
    /\ UNCHANGED <<current_idx, timeline_metric, session_count_var, timeline, brainbar, disk, arg>>
    /\ UNCHANGED beside_neurosync

\* sessions[0].dominant_band()
CallDominantBand ==
    /\ sessions # <<>>
    /\ op' = "dominant_band"
    /\ ret' = dominant_band(sessions[1])
    /\ UNCHANGED <<sessions, current_idx, timeline_metric, session_count_var, timeline,
                   brainbar, disk, arg>>
    /\ UNCHANGED beside_neurosync

\* brainbar.draw(sessions[0])
CallDraw ==
    /\ sessions # <<>>
    /\ \E strict \in BOOLEAN : brainbar' = BrainwaveBarDraw(sessions[1], strict)
    /\ op' = "draw"
    /\ UNCHANGED <<sessions, current_idx, timeline_metric, session_count_var, timeline,
                   disk, arg, ret>>
    /\ UNCHANGED beside_neurosync

NextSession == CallFromDict \/ CallDominantBand \/ CallDraw

SpecSession == InitSession /\ [][NextSession]_vars

\* ---- claims on the Session methods

\* C3 (as claimed): from_dict copies a key of d onto the new Session only if
\* it is a declared field name; every other key is dropped without an error
\* and without changing anything on the Session.
C3_FromDictCopiesOnlyFields ==
    op = "from_dict" =>
        /\ ret.exc = ""
        /\ ret.val = [f \in Fields |-> IF HasKey(arg.pairs, f) THEN Get(arg.pairs, f)
                                       ELSE NewSession[f]]

BandsFinite(s) == \A i \in 1..5 : IsFinite(s[BandNames[i]])

BandsAllZero(s) == \A i \in 1..5 : PyEq(s[BandNames[i]], PyInt(0))

MethodsIntact(s) == DOMAIN s = Fields

\* The first band, in the fixed order, that holds the maximum of the five.
FirstMaxBand(s) ==
    BandNames[CHOOSE i \in 1..5 :
                /\ \A j \in 1..5 : s[BandNames[j]].n <= s[BandNames[i]].n
                /\ \A j \in 1..(i - 1) : s[BandNames[j]].n < s[BandNames[i]].n]

C5_AllZeroIsNone ==
    /\ (op = "dominant_band" /\ BandsAllZero(sessions[1]))
          => ret = [exc |-> "", val |-> "none"]
    /\ (op = "draw" /\ BandsAllZero(sessions[1]))
          => (brainbar.exc = "" /\ brainbar.text = "No brainwave data" /\ brainbar.bars = <<>>)

\* ---- col_map on its own

MaxCols == 3

\* Header texts as a CSV's first row may hold them.
HeaderCells ==
    {"Gamma", "gamma beta", "Beta", "Alpha/Beta", "theta heart rate", "Heart Rate",
     "HR", "hrv", "Time", "Date", "relax time", "flow time", " stamp ", "notes"}

RECURSIVE SeqsUpTo(_, _)
\* The sequences over S of length 0..n.
SeqsUpTo(S, n) ==
    IF n = 0 THEN {<<>>}
    ELSE LET shorter == SeqsUpTo(S, n - 1)
         IN  shorter \cup {Append(q, x) : q \in shorter, x \in S}

InitColMap ==
    /\ sessions = <<>>
    /\ current_idx = 0
    /\ timeline_metric = "sanding"
    /\ session_count_var = 0
    /\ timeline = BlankTimeline
    /\ brainbar = BlankCanvas
    /\ disk = NoFile
    /\ op = "init"
    /\ arg \in SeqsUpTo(HeaderCells, MaxCols)
    /\ ret = Outcome(<<>>, "")
    /\ ChunkerInit
    /\ ForgeInit
    /\ SifterInit

\* The col_map load_csv builds for the header row arg.
CallColMap ==
    /\ op = "init"
    /\ op' = "col_map"
    /\ ret' = ColMap(arg)
    /\ UNCHANGED <<sessions, current_idx, timeline_metric, session_count_var, timeline,
                   brainbar, disk, arg>>
    /\ UNCHANGED beside_neurosync

NextColMap == CallColMap

SpecColMap == InitColMap /\ [][NextColMap]_vars

\* h.lower().strip() of header i of the row.
Hl(names, i) == Strip(Lower(names[i]))

HasGamma(hl) == Contains(hl, "gamma")

HasBetaNotAlpha(hl) == Contains(hl, "beta") /\ ~Contains(hl, "alpha")

IsHeartRate(hl) ==
    (Contains(hl, "heart") /\ Contains(hl, "rate")) \/ hl \in {"hr", "bpm", "heartrate"}

HasBandName(hl) ==
    \E b \in {"gamma", "beta", "alpha", "theta", "delta"} : Contains(hl, b)

\* The last header of the row that satisfies P.
LastHeader(names, P(_)) ==
    names[CHOOSE i \in 1..Len(names) :
            P(Hl(names, i)) /\ \A j \in (i + 1)..Len(names) : ~P(Hl(names, j))]

\* The field's column is one of the row's headers that satisfy P.
MappedToSome(cm, field, names, P(_)) ==
    field \in DOMAIN cm /\ \E j \in 1..Len(names) : P(Hl(names, j)) /\ cm[field] = names[j]

\* C8 (as claimed): a header that contains "gamma" is mapped to gamma; one
\* that contains "beta" but not "alpha" to beta; one that contains "heart"
\* and "rate", or is exactly hr, bpm or heartrate, to heart_rate.  Read so
\* that the field's column is some header of that kind.
C8_AsClaimed ==
    op = "col_map" =>
        \A i \in 1..Len(arg) :
            /\ HasGamma(Hl(arg, i)) => MappedToSome(ret, "gamma", arg, HasGamma)
            /\ HasBetaNotAlpha(Hl(arg, i)) => MappedToSome(ret, "beta", arg, HasBetaNotAlpha)
            /\ IsHeartRate(Hl(arg, i)) => MappedToSome(ret, "heart_rate", arg, IsHeartRate)

BetaOnly(hl) == HasBetaNotAlpha(hl) /\ ~HasGamma(hl)

HeartRateOnly(hl) == IsHeartRate(hl) /\ ~HasBandName(hl)

\* C8 (amended): the tests are tried in the order gamma, beta, ..., heart
\* rate and the first that passes decides: a header with "gamma" goes to
\* gamma; one with "beta" and neither "alpha" nor "gamma" to beta; a heart
\* rate header with none of the five band names to heart_rate; and of
\* several headers for one field the last is its column.  No other header
\* is mapped to these fields.
C8_HeaderMapping ==
    op = "col_map" =>
        /\ IF \E i \in 1..Len(arg) : HasGamma(Hl(arg, i))
           THEN "gamma" \in DOMAIN ret /\ ret["gamma"] = LastHeader(arg, HasGamma)
           ELSE "gamma" \notin DOMAIN ret
        /\ IF \E i \in 1..Len(arg) : BetaOnly(Hl(arg, i))
           THEN "beta" \in DOMAIN ret /\ ret["beta"] = LastHeader(arg, BetaOnly)
           ELSE "beta" \notin DOMAIN ret
        /\ IF \E i \in 1..Len(arg) : HeartRateOnly(Hl(arg, i))
           THEN "heart_rate" \in DOMAIN ret /\ ret["heart_rate"] = LastHeader(arg, HeartRateOnly)
           ELSE "heart_rate" \notin DOMAIN ret

\* C8 witness: one row whose headers went to gamma, beta and heart_rate,
\* compared without regard to case.
C8_Witness ==
    /\ op = "col_map"
    /\ arg = <<"Gamma", "Beta", "HR">>
    /\ ret = [gamma |-> "Gamma", beta |-> "Beta", heart_rate |-> "HR"]

\* ---- CSV import and manual entry

\* First rows of CSV files.
CsvHeaderRows ==
    {<<"time", "notes">>, <<"Gamma", "Time">>, <<"Timestamp", "date">>,
     <<"relax time", "Date">>, <<"time", "time">>, <<"stress", "hrv">>, <<>>}

\* Later rows of CSV files: a short row and full rows.
CsvRows ==
    {<<"5">>, <<"x", "7">>, <<"", "nan">>, <<"2025-01-01", "hello">>}

\* Files in which blank lines stand between the rows.
CsvFilesWithBlankLines ==
    {CsvFile(<<<<"time", "notes">>, <<>>, <<"2025-01-01", "hello">>, <<>>>>, FALSE),
     CsvFile(<<<<"Gamma", "Time">>, <<>>>>, FALSE)}

\* The CSV files a user may choose.
CsvFiles ==
    {Cancelled, Unreadable, CsvFile(<<>>, FALSE)}
        \cup CsvFilesWithBlankLines
        \cup {CsvFile(<<h>> \o d, FALSE) : h \in CsvHeaderRows, d \in SeqsUpTo(CsvRows, MaxRows)}
        \cup {CsvFile(<<<<"Gamma", "Time">>>> \o d, TRUE) : d \in SeqsUpTo(CsvRows, 1)}

\* The rows of the file that DictReader yields as data (a file with no row
\* has none).
DataRowCount(rows) == IF rows = <<>> THEN 0 ELSE Len(DataRows(rows))

\* What the dialog's entries hold when it opens, and its empty
\* conversation box.
DefaultForm ==
    [timestamp |-> "2026-02-11 08:00", label |-> "Session description",
     gamma |-> "10", beta |-> "35", alpha |-> "25", theta |-> "22", delta |-> "8",
     heart_rate |-> "80", hrv |-> "25", coherence |-> "5", flow |-> "20",
     stress |-> "Normal", relaxation |-> "50", attention |-> "60", sanding |-> "3.0",
     platform |-> "CLAUDE", nodes_active |-> "00, 11, 13", conversation |-> ""]

\* The dialog as a user may have filled it in.
Forms ==
    {[DefaultForm EXCEPT !.gamma = g, !.sanding = sd, !.conversation = c] :
        g \in {"10", "", "abc", "nan"}, sd \in {"3.0", "x"}, c \in {"", " hi\n"}}

LoadCsv ==
    \E file \in CsvFiles, strict \in BOOLEAN :
        /\ file.k = "csv" => Len(sessions) + DataRowCount(file.rows) <= MaxSessions
        /\ Do("load_csv", file, load_csv(App, timeline_metric, file, strict))
        /\ UNCHANGED <<timeline_metric, disk>>

SaveEntry ==
    \E form \in Forms, strict \in BOOLEAN :
        /\ Len(sessions) < MaxSessions
        /\ Do("save", form, save(App, timeline_metric, form, strict))
        /\ UNCHANGED <<timeline_metric, disk>>

NextCsv == LoadCsv \/ SaveEntry

SpecCsv == Init /\ [][NextCsv]_vars

\* The Store after the step holds the Store before it, then n more
\* sessions.
Appended(n) ==
    /\ Len(sessions') = Len(sessions) + n
    /\ SubSeq(sessions', 1, Len(sessions)) = sessions

\* The step is load_csv reading a file to its end.
CsvRead == op' = "load_csv" /\ arg'.k = "csv" /\ ~arg'.broken

\* C6: importing a CSV file with R data rows appends exactly R sessions in
\* row order, the n-th labelled "CSV Import #n" counting from 1 within this
\* call, and reports the count R to the user.
C6_CsvAppendsRows ==
    [][CsvRead =>
        LET R == DataRowCount(arg'.rows) IN
        /\ Appended(R)
        /\ \A n \in 1..R :
              sessions'[Len(sessions) + n]["label"] = PyStr("CSV Import #" \o IntText(n))
        /\ ret'.msgs # <<>>
        /\ ret'.msgs[1] = Box("showinfo", "CSV Loaded", R)]_vars

\* The same for a file that has a first row.
CsvAppendsRowsOfFilesWithHeader ==
    [][(CsvRead /\ arg'.rows # <<>>) =>
        LET R == DataRowCount(arg'.rows) IN
        /\ Appended(R)
        /\ \A n \in 1..R :
              sessions'[Len(sessions) + n]["label"] = PyStr("CSV Import #" \o IntText(n))
        /\ ret'.msgs # <<>>
        /\ ret'.msgs[1] = Box("showinfo", "CSV Loaded", R)]_vars

\* The step is load_csv reading the rows of a file that has a first row,
\* to its end or until the reader fails.
CsvRowsRead == op' = "load_csv" /\ arg'.k = "csv" /\ arg'.rows # <<>>

\* A source text that gives no number: missing, empty, or refused by
\* float().
NoNumberText(v) == v = PyNone \/ v.s = "" \/ Raised(ParseFloat(v.s))

\* The text a CSV row holds for a field: the cell under the field's column,
\* missing when the field has no column or the row is too short.
CsvSourceText(names, row, field) ==
    IF field \in DOMAIN ColMap(names)
    THEN RowGet(names, row, ColMap(names)[field], PyNone)
    ELSE PyNone

IsZero(v) == v.k \in {"int", "float"} /\ v.n = 0

\* No session of the Store holds a NaN.
NoNaN(sess) == \A i \in 1..Len(sess) : \A f \in Fields : sess[i][f].k # "nan"

HasTimeWord(hl) == Contains(hl, "time") \/ Contains(hl, "date") \/ Contains(hl, "stamp")

\* A test of the chain before the last passes.
TakenEarlier(hl) ==
    \/ HasBandName(hl)
    \/ IsHeartRate(hl)
    \/ \E w \in {"hrv", "coherence", "stress", "relax", "attention", "focus"} : Contains(hl, w)
    \/ (Contains(hl, "flow") /\ ~Contains(hl, "time"))

\* The first header of the row that satisfies P, as an index.
FirstIndex(names, P(_)) ==
    CHOOSE i \in 1..Len(names) : P(Hl(names, i)) /\ \A j \in 1..(i - 1) : ~P(Hl(names, j))

TimeOnly(hl) == HasTimeWord(hl) /\ ~TakenEarlier(hl)

\* The timestamp of the amended claim for one row.
TimestampOf(names, row) ==
    IF \E i \in 1..Len(names) : TimeOnly(Hl(names, i))
    THEN LET h == names[FirstIndex(names, TimeOnly)]
             c == CHOOSE j \in 1..Len(names) :
                      names[j] = h /\ \A g \in (j + 1)..Len(names) : names[g] # h
         IN  IF c <= Len(row) THEN PyStr(row[c]) ELSE PyNone
    ELSE PyStr("")

MaxConvSessions == 3

\* The dialog as filled in before conversations are attached.
ConvForms ==
    {DefaultForm, [DefaultForm EXCEPT !.conversation = "old"], [DefaultForm EXCEPT !.gamma = "nan"]}

\* Contents of plain-text conversation files.
ConvTexts ==
    {"", "a", " a \n\nb", "a\n\n\n\nb", "x\n \ny", " one \n\ntwo\n\n\nthree\n\nfour"}

EnterForConv ==
    \E form \in ConvForms, strict \in BOOLEAN :
        /\ Len(sessions) < MaxConvSessions
        /\ Do("save", form, save(App, timeline_metric, form, strict))
        /\ UNCHANGED <<timeline_metric, disk>>

LoadText ==
    \E file \in {ConvText(x) : x \in ConvTexts} \cup {Cancelled, Unreadable}, strict \in BOOLEAN :
        /\ Do("load_conversations", file, load_conversations(App, timeline_metric, file, strict))
        /\ UNCHANGED <<timeline_metric, disk>>

NextConv == EnterForConv \/ LoadText

SpecConv == Init /\ [][NextConv]_vars

Pair(key, lit) == [key |-> key, lit |-> lit]

\* JSON documents a user may choose to load: exported-like lists, a list
\* with an element that is no object, a top-level object, and a file that
\* is no JSON.
JsonDocs ==
    {JsonList(<<ItemDict(<<Pair("label", "\"a\""), Pair("hrv", "null")>>)>>),
     JsonList(<<ItemDict(<<Pair("label", "\"q\\\"\\\\\""), Pair("gamma", "NaN")>>)>>),
     JsonList(<<ItemDict(<<Pair("sanding", "\"high\""), Pair("foo", "1")>>)>>),
     JsonList(<<ItemDict(<<Pair("to_dict", "1")>>)>>),
     JsonList(<<ItemDict(<<Pair("label", "\"a\"")>>), ItemLit("5")>>),
     JsonList(<<>>),
     JsonDict(<<Pair("a", "1")>>),
     JsonInvalid}

\* CSV files of the application's runs: one with a short row, one the
\* reader fails on after its first row, one with no row.
AppCsvFiles ==
    {CsvFile(<<<<"Time", "Gamma">>, <<"2025-01-01">>>>, FALSE),
     CsvFile(<<<<"Time", "Gamma">>, <<"2025-01-02", "7">>>>, TRUE),
     CsvFile(<<>>, FALSE),
     Unreadable}

\* Conversation files of the application's runs.
AppConvFiles ==
    {ConvText("a\n\nb"),
     ConvJson(JsonDict(<<Pair("2025", "\"c\"")>>)),
     ConvJson(JsonInvalid)}

\* The dialog as filled in in the application's runs.
AppForms == {DefaultForm, [DefaultForm EXCEPT !.gamma = "nan", !.hrv = "x"]}

ImportCsv ==
    \E file \in AppCsvFiles, strict \in BOOLEAN :
        /\ file.k = "csv" => Len(sessions) + DataRowCount(file.rows) <= MaxSessions
        /\ Do("load_csv", file, load_csv(App, timeline_metric, file, strict))
        /\ UNCHANGED <<timeline_metric, disk>>

ImportJson ==
    \E doc \in JsonDocs, strict \in BOOLEAN :
        /\ doc.k = "list" => Len(sessions) + Len(doc.items) <= MaxSessions
        /\ Do("load_json", JsonFile(doc), load_json(App, timeline_metric, JsonFile(doc), strict))
        /\ UNCHANGED <<timeline_metric, disk>>

ImportConversations ==
    \E file \in AppConvFiles, strict \in BOOLEAN :
        /\ Do("load_conversations", file, load_conversations(App, timeline_metric, file, strict))
        /\ UNCHANGED <<timeline_metric, disk>>

ManualEntry ==
    \E form \in AppForms, strict \in BOOLEAN :
        /\ Len(sessions) < MaxSessions
        /\ Do("save", form, save(App, timeline_metric, form, strict))
        /\ UNCHANGED timeline_metric
        /\ UNCHANGED disk

Next ==
    \/ ImportCsv
    \/ ImportJson
    \/ ImportConversations
    \/ ManualEntry

Spec == Init /\ [][Next]_vars

\* ---- export and load

\* JSON files written by hand or by another program.
SavedDocs ==
    {JsonList(<<ItemDict(<<Pair("label", "\"a\""), Pair("hrv", "null")>>)>>),
     JsonList(<<ItemDict(<<Pair("label", "\"q\\\"\\\\\""), Pair("sanding", "\"high\"")>>)>>),
     JsonList(<<ItemDict(<<Pair("to_dict", "1")>>)>>)}

\* load_json of one of those files, or of the file export_json left.
LoadSaved ==
    \E doc \in SavedDocs \cup {disk}, strict \in BOOLEAN :
        /\ doc # NoFile
        /\ Len(sessions) + Len(doc.items) <= MaxSessions
        /\ Do("load_json", JsonFile(doc), load_json(App, timeline_metric, JsonFile(doc), strict))
        /\ UNCHANGED <<timeline_metric, disk>>

ExportJson ==
    \E file \in {Writable, Unwritable, Cancelled} :
        /\ Do("export_json", file, export_json(App, file, disk))
        /\ disk' = export_json(App, file, disk).disk
        /\ UNCHANGED timeline_metric

\* The application is closed and started again; the files stay.
StartAgain ==
    /\ sessions' = <<>>
    /\ current_idx' = 0
    /\ timeline_metric' = "sanding"
    /\ session_count_var' = 0
    /\ timeline' = BlankTimeline
    /\ brainbar' = BlankCanvas
    /\ op' = "init"
    /\ arg' = NoInput
    /\ ret' = Outcome(<<>>, "")
    /\ UNCHANGED disk
    /\ UNCHANGED beside_neurosync

NextPersist == ManualEntry \/ LoadSaved \/ ExportJson \/ StartAgain

SpecPersist == Init /\ [][NextPersist]_vars

\* An application with an empty Store.
FreshApp ==
    [sessions |-> <<>>, current_idx |-> 0, session_count_var |-> 0,
     timeline |-> BlankTimeline, brainbar |-> BlankCanvas]

\* The sessions load_json leaves in an empty Store for the file on disk.
Reloaded(strict) == load_json(FreshApp, "sanding", JsonFile(disk), strict).app.sessions

\* export_json has just written the Store.
Exported ==
    /\ op = "export_json"
    /\ ret = Outcome(<<Box("showinfo", "Exported", Len(sessions))>>, "")

\* C1: exporting a Store of N >= 1 sessions and loading the file into an
\* empty Store yields N sessions in the same order, each with every
\* declared field equal to the value it had (a NaN comes back as NaN).
C1_RoundTrip ==
    Exported =>
        \A strict \in BOOLEAN :
            /\ Len(Reloaded(strict)) = Len(sessions)
            /\ \A i \in 1..Len(sessions) : \A f \in Fields :
                  Reloaded(strict)[i][f] = sessions[i][f]

\* C1 witness: the exported file was loaded after a restart and gave back
\* two sessions, among them a None, a NaN and a text with a quote.
C1_Witness ==
    /\ op = "load_json"
    /\ arg = JsonFile(disk)
    /\ Len(sessions) = 2
    /\ sessions[1]["hrv"] = PyNone
    /\ sessions[1]["label"] = PyStr("a")
    /\ sessions[2]["gamma"] = PyNaN
    /\ sessions[2]["hrv"] = PyInt(0)
    /\ sessions[2]["sanding"] = PyFloat(3)
    /\ sessions[2]["nodes_active"] = PyStr("00, 11, 13")
    /\ ret.msgs[1] = Box("showinfo", "Loaded", 2)

\* The step showed an error box.
ErrorReported == \E i \in 1..Len(ret'.msgs) : ret'.msgs[i].box = "showerror"

\* C2: for load_csv, load_json and load_conversations and any file content,
\* a call that ends by reporting an error leaves the Store (its length, its
\* order, every field of every session) as it was before the call.
C2_ErrorLeavesStore ==
    [][(op' \in {"load_csv", "load_json", "load_conversations"} /\ ErrorReported)
            => sessions' = sessions]_vars

\* ---- JSON conversation files

\* The dialog as filled in before JSON conversations are attached.
ConvJsonForms ==
    {DefaultForm,
     [DefaultForm EXCEPT !.timestamp = "2025-01-01", !.conversation = "old"]}

\* A CSV file whose only data row is too short for its Time column: the
\* session it gives has None for timestamp.
ShortRowFile == CsvFile(<<<<"Gamma", "Time">>, <<"5">>>>, FALSE)

\* JSON arrays chosen as conversation files.
ConvLists ==
    {JsonList(<<ItemLit("\"hi\""),
                ItemDict(<<Pair("text", "\"t\""), Pair("content", "\"c\"")>>),
                ItemDict(<<Pair("text", "\"t\"")>>),
                ItemDict(<<Pair("a", "1")>>)>>),
     JsonList(<<ItemDict(<<Pair("a", "1"), Pair("b", "\"x\"")>>), ItemLit("5"), ItemLit("\"\"")>>),
     JsonList(<<ItemDict(<<Pair("content", "null"), Pair("text", "\"t\"")>>),
                ItemDict(<<>>), ItemLit("null")>>),
     JsonList(<<>>)}

\* JSON objects chosen as conversation files.
ConvDicts ==
    {JsonDict(<<Pair("2026", "\"x\""), Pair("02", "\"y\"")>>),
     JsonDict(<<Pair("01-01", "\"c\""), Pair("", "\"all\""), Pair("2025", "5")>>),
     JsonDict(<<Pair("2025", "\"a\""), Pair("20", "\"b\"")>>),
     JsonDict(<<Pair("zz", "\"no\"")>>),
     JsonDict(<<>>)}

EnterForConvJson ==
    \E form \in ConvJsonForms, strict \in BOOLEAN :
        /\ Len(sessions) < MaxConvSessions
        /\ Do("save", form, save(App, timeline_metric, form, strict))
        /\ UNCHANGED <<timeline_metric, disk>>

ImportShortRow ==
    \E strict \in BOOLEAN :
        /\ Len(sessions) < MaxConvSessions
        /\ Do("load_csv", ShortRowFile, load_csv(App, timeline_metric, ShortRowFile, strict))
        /\ UNCHANGED <<timeline_metric, disk>>

LoadConvJson ==
    \E doc \in ConvLists \cup ConvDicts \cup {JsonLit("5"), JsonInvalid}, strict \in BOOLEAN :
        /\ Do("load_conversations", ConvJson(doc),
              load_conversations(App, timeline_metric, ConvJson(doc), strict))
        /\ UNCHANGED <<timeline_metric, disk>>

NextConvJson == EnterForConvJson \/ ImportShortRow \/ LoadConvJson

SpecConvJson == Init /\ [][NextConvJson]_vars

\* The step is load_conversations on a file that holds a JSON array.
ListRead == op' = "load_conversations" /\ arg'.k = "json" /\ arg'.doc.k = "list"

\* The element is a string, an object, or something else.
IsStrItem(item) == item.k = "val" /\ item.val.k = "str"
IsDictItem(item) == item.k = "dict"

\* The conversation an object element gives: its content value, else its
\* text value, else its dump.
ObjectText(pairs) ==
    IF \E j \in 1..Len(pairs) : pairs[j].key = "content"
    THEN pairs[CHOOSE j \in 1..Len(pairs) : pairs[j].key = "content"].val
    ELSE IF \E j \in 1..Len(pairs) : pairs[j].key = "text"
    THEN pairs[CHOOSE j \in 1..Len(pairs) : pairs[j].key = "text"].val
    ELSE PyStr(DumpsIndent(pairs))

\* C11 (as claimed): every element i below both lengths becomes the
\* conversation of session i, whatever the element is: a string verbatim, an
\* object by content, text or dump, any other element as its value or the
\* text of its value.
C11_AsClaimed ==
    [][ListRead =>
        LET items == JsonLoad(arg'.doc).val.items IN
        \A i \in 1..Len(sessions) :
            i <= Len(items) =>
                IF IsDictItem(items[i])
                THEN sessions'[i]["conversation"] = ObjectText(items[i].pairs)
                ELSE sessions'[i]["conversation"] \in {items[i].val, PyStr(StrOf(items[i].val))}]_vars

\* C11 (amended): for every index i below both the array length and the
\* Store length, a string element becomes session i's conversation
\* verbatim, an object element gives the value under its content key, else
\* the value under its text key, else the object's json.dumps(indent=2)
\* text, and an element that is neither (a number, null) leaves session i
\* as it was; the sessions past the array keep theirs, the elements past the
\* Store are ignored and the Store keeps its length and every other field;
\* the Store holding no NaN, the call shows its box of success and no error.
C11_ListAttachment ==
    [][ListRead =>
        LET items == JsonLoad(arg'.doc).val.items IN
        /\ Len(sessions') = Len(sessions)
        /\ \A i \in 1..Len(sessions) :
              IF i <= Len(items) /\ IsStrItem(items[i])
              THEN sessions'[i] = [sessions[i] EXCEPT !.conversation = items[i].val]
              ELSE IF i <= Len(items) /\ IsDictItem(items[i])
              THEN sessions'[i] = [sessions[i] EXCEPT !.conversation = ObjectText(items[i].pairs)]
              ELSE sessions'[i] = sessions[i]
        /\ NoNaN(sessions) => ret' = Outcome(<<Box("showinfo", "Loaded", 0)>>, "")]_vars

\* C11 witness: an array of four elements on a Store of three sessions; a
\* string, an object with content and text, an object with text only.
C11_Witness ==
    /\ op = "load_conversations"
    /\ arg.k = "json" /\ arg.doc.k = "list" /\ Len(arg.doc.items) = 4
    /\ Len(sessions) = 3
    /\ sessions[1]["conversation"] = PyStr("hi")
    /\ sessions[2]["conversation"] = PyStr("c")
    /\ sessions[3]["conversation"] = PyStr("t")
    /\ ret = Outcome(<<Box("showinfo", "Loaded", 0)>>, "")

\* An object with neither key was attached as its indented dump, and the
\* number after it left its session's conversation alone.
DumpAttached ==
    /\ op = "load_conversations"
    /\ arg.k = "json" /\ arg.doc.k = "list" /\ Len(arg.doc.items) = 3
    /\ Len(sessions) = 2
    /\ sessions[1]["conversation"] = PyStr("{\n  \"a\": 1,\n  \"b\": \"x\"\n}")
    /\ sessions[2]["conversation"] = PyStr("old")

\* The step is load_conversations on a file that holds a JSON object.
DictRead == op' = "load_conversations" /\ arg'.k = "json" /\ arg'.doc.k = "dict"

\* The last key of the object, in its iteration order, that the text
\* contains.
LastKeyIn(pairs, text) ==
    CHOOSE j \in 1..Len(pairs) :
        /\ Contains(text, pairs[j].key)
        /\ \A h \in (j + 1)..Len(pairs) : ~Contains(text, pairs[h].key)

\* A timestamp that is a text containing one of the object's keys.
ContainsSomeKey(pairs, ts) ==
    ts.k = "str" /\ \E j \in 1..Len(pairs) : Contains(ts.s, pairs[j].key)

\* C12: after load_conversations on a JSON object, every session whose
\* timestamp contains at least one key of the object as a substring has as
\* conversation the value (as text) of the last such key in the object's
\* iteration order, and every session whose timestamp contains none of the
\* keys keeps the conversation it had before.
C12_DictAttachment ==
    [][DictRead =>
        LET pairs == JsonLoad(arg'.doc).val.pairs IN
        \A i \in 1..Len(sessions) :
            IF ContainsSomeKey(pairs, sessions[i]["timestamp"])
            THEN sessions'[i]["conversation"]
                    = PyStr(StrOf(pairs[LastKeyIn(pairs, sessions[i]["timestamp"].s)].val))
            ELSE sessions'[i]["conversation"] = sessions[i]["conversation"]]_vars

\* The same on a Store whose timestamps are all texts, where it holds.
DictAttachmentOnTextTimestamps ==
    [][(DictRead /\ \A i \in 1..Len(sessions) : sessions[i]["timestamp"].k = "str") =>
        LET pairs == JsonLoad(arg'.doc).val.pairs IN
        /\ \A i \in 1..Len(sessions) :
              IF ContainsSomeKey(pairs, sessions[i]["timestamp"])
              THEN sessions'[i] = [sessions[i] EXCEPT !.conversation
                      = PyStr(StrOf(pairs[LastKeyIn(pairs, sessions[i]["timestamp"].s)].val))]
              ELSE sessions'[i] = sessions[i]
        /\ Len(sessions') = Len(sessions)]_vars

\* Two keys matched one timestamp and the later one's value stayed.
LastKeyWon ==
    /\ op = "load_conversations"
    /\ arg = ConvJson(JsonDict(<<Pair("2025", "\"a\""), Pair("20", "\"b\"")>>))
    /\ Len(sessions) = 2
    /\ sessions[1]["timestamp"] = PyStr("2025-01-01")
    /\ sessions[1]["conversation"] = PyStr("b")
    /\ sessions[2]["timestamp"] = PyStr("2026-02-11 08:00")
    /\ sessions[2]["conversation"] = PyStr("b")

\* ---- every operation of the application in one run

\* The files and the dialog of these runs.
OpsCsvFiles == {CsvFile(<<<<"Time", "Gamma">>, <<"2025-01-01", "7">>>>, FALSE), Unreadable}

OpsJsonDocs == {JsonList(<<ItemDict(<<Pair("sanding", "\"high\"")>>)>>), JsonInvalid}

OpsConvFiles ==
    {ConvText("a\n\nb"),
     ConvJson(JsonList(<<ItemLit("\"x\""), ItemLit("5")>>)),
     ConvJson(JsonDict(<<Pair("2026", "\"c\"")>>))}

OpsMetrics == {"sanding", "hrv"}

OpsCsv ==
    \E file \in OpsCsvFiles, strict \in BOOLEAN :
        /\ file.k = "csv" => Len(sessions) + DataRowCount(file.rows) <= MaxSessions
        /\ Do("load_csv", file, load_csv(App, timeline_metric, file, strict))
        /\ UNCHANGED <<timeline_metric, disk>>

OpsJson ==
    \E doc \in OpsJsonDocs, strict \in BOOLEAN :
        /\ doc.k = "list" => Len(sessions) + Len(doc.items) <= MaxSessions
        /\ Do("load_json", JsonFile(doc), load_json(App, timeline_metric, JsonFile(doc), strict))
        /\ UNCHANGED <<timeline_metric, disk>>

OpsConversations ==
    \E file \in OpsConvFiles, strict \in BOOLEAN :
        /\ Do("load_conversations", file, load_conversations(App, timeline_metric, file, strict))
        /\ UNCHANGED <<timeline_metric, disk>>

OpsEntry ==
    \E strict \in BOOLEAN :
        /\ Len(sessions) < MaxSessions
        /\ Do("save", DefaultForm, save(App, timeline_metric, DefaultForm, strict))
        /\ UNCHANGED <<timeline_metric, disk>>

OpsExport ==
    \E file \in {Writable, Unwritable, Cancelled} :
        /\ Do("export_json", file, export_json(App, file, disk))
        /\ disk' = export_json(App, file, disk).disk
        /\ UNCHANGED timeline_metric

\* A click on one of the points the timeline shows.
OpsClick ==
    \E idx \in 0..(timeline.points - 1), strict \in BOOLEAN :
        /\ Do("click", [k |-> "point", idx |-> idx], click(App, idx, strict))
        /\ UNCHANGED <<timeline_metric, disk>>

OpsPrev ==
    \E strict \in BOOLEAN :
        /\ Do("prev_session", NoInput, prev_session(App, strict))
        /\ UNCHANGED <<timeline_metric, disk>>

OpsNext ==
    \E strict \in BOOLEAN :
        /\ Do("next_session", NoInput, next_session(App, strict))
        /\ UNCHANGED <<timeline_metric, disk>>

\* A metric radio button: the variable is set, then redraw_timeline runs.
OpsMetric ==
    \E metric \in OpsMetrics, strict \in BOOLEAN :
        /\ timeline_metric' = metric
        /\ Do("redraw_timeline", [k |-> "metric", metric |-> metric],
              redraw_timeline(App, metric, strict))
        /\ UNCHANGED disk

NextOps ==
    \/ OpsCsv
    \/ OpsJson
    \/ OpsConversations
    \/ OpsEntry
    \/ OpsExport
    \/ OpsClick
    \/ OpsPrev
    \/ OpsNext
    \/ OpsMetric

SpecOps == Init /\ [][NextOps]_vars

\* C13: a session already in the Store is changed only by
\* load_conversations and only in its conversation: load_conversations
\* (array, object or plain text) never changes the Store's length or order
\* nor any other field, and no other operation (CSV import, manual entry,
\* JSON load, export, point click, PREV/NEXT, metric change) changes any
\* field of a session already in the Store.
C13_OnlyConversationChanges ==
    [][IF op' = "load_conversations"
       THEN /\ Len(sessions') = Len(sessions)
            /\ \A i \in 1..Len(sessions) : \A f \in DOMAIN sessions[i] :
                  f # "conversation" => sessions'[i][f] = sessions[i][f]
            /\ \A i \in 1..Len(sessions) : DOMAIN sessions'[i] = DOMAIN sessions[i]
       ELSE /\ Len(sessions') >= Len(sessions)
            /\ \A i \in 1..Len(sessions) : sessions'[i] = sessions[i]]_vars

\* C13 witness: a text file gave both sessions of the Store a conversation
\* and left what manual entry and CSV import had put in them.
C13_Witness ==
    /\ op = "load_conversations"
    /\ arg = ConvText("a\n\nb")
    /\ Len(sessions) = 2
    /\ sessions[1]["conversation"] = PyStr("a")
    /\ sessions[1]["label"] = PyStr("Session description")
    /\ sessions[2]["conversation"] = PyStr("b")
    /\ sessions[2]["timestamp"] = PyStr("2025-01-01")
    /\ sessions[2]["gamma"] = PyFloat(7)

\* A session is the same but for what was attached to it.
SameButConversation(s, t) ==
    [s EXCEPT !.conversation = PyNone] = [t EXCEPT !.conversation = PyNone]

\* The sessions an import or an entry adds when it runs to its end.
Added ==
    CASE op' = "save" -> 1
      [] op' = "load_csv" /\ arg'.k = "csv" /\ arg'.rows # <<>> -> DataRowCount(arg'.rows)
      [] op' = "load_json" /\ arg'.doc.k = "list" /\ ret'.msgs[1].box = "showinfo"
            -> Len(arg'.doc.items)
      [] OTHER -> 0

\* C14: the Store is append-only: no operation makes it shorter, every
\* operation leaves the sessions that were there as a prefix in the same
\* order, new sessions come only at the end, and an import or entry that
\* runs to its end adds one session per row, element or entry whatever the
\* Store already holds (no deduplication, no reordering).
C14_AppendOnly ==
    [][/\ Len(sessions') >= Len(sessions)
       /\ \A i \in 1..Len(sessions) : SameButConversation(sessions'[i], sessions[i])
       /\ Len(sessions') >= Len(sessions) + Added
       /\ op' \in {"save", "load_csv"} => Len(sessions') = Len(sessions) + Added]_vars

\* C14 witness: the same CSV file imported twice, both copies kept.
C14_Witness ==
    /\ op = "load_csv"
    /\ arg = CsvFile(<<<<"Time", "Gamma">>, <<"2025-01-01", "7">>>>, FALSE)
    /\ Len(sessions) = 2
    /\ sessions[1] = sessions[2]
    /\ ret = Outcome(<<Box("showinfo", "CSV Loaded", 1)>>, "")

\* C19: no operation ends with an exception escaping its handler: every
\* failure is caught inside the operation and shown in an error box.
C19_NoEscapingException == ret.exc = ""

\* An import's own handler caught what refresh() raised and showed it.
CaughtInsideImport ==
    /\ op = "load_json"
    /\ ret = Outcome(<<Box("showinfo", "Loaded", 1), ErrorBox>>, "")

\* ---- TimelineCanvas.draw on its own

MaxSeries == 3

\* The dialog as filled in for the timeline: the sanding texts.
SeriesForms ==
    {[DefaultForm EXCEPT !.sanding = sd] :
        sd \in {"3.0", "9", "-2", "nan", "9007199254740992", "9007199254740994"}}

\* JSON files whose sessions hold other things than numbers.
SeriesDocs ==
    {JsonList(<<ItemDict(<<Pair("hrv", "null"), Pair("sanding", "4")>>)>>),
     JsonList(<<ItemDict(<<Pair("hrv", "\"7\""), Pair("heart_rate", "\"x\"")>>)>>),
     JsonList(<<ItemDict(<<Pair("beta", "\"high\"")>>)>>)}

\* The metric keys draw is called with: those of the radio buttons and
\* others.
MetricKeys == Metrics \cup {"", "HRV", "gamma"}

EnterForSeries ==
    \E form \in SeriesForms, strict \in BOOLEAN :
        /\ Len(sessions) < MaxSeries
        /\ Do("save", form, save(App, timeline_metric, form, strict))
        /\ UNCHANGED <<timeline_metric, disk>>

LoadForSeries ==
    \E doc \in SeriesDocs, strict \in BOOLEAN :
        /\ Len(sessions) + Len(doc.items) <= MaxSeries
        /\ Do("load_json", JsonFile(doc), load_json(App, timeline_metric, JsonFile(doc), strict))
        /\ UNCHANGED <<timeline_metric, disk>>

\* timeline.draw(sessions, metric): ret keeps the lists `values` and
\* `points` (its y) that draw built.
CallTimelineDraw ==
    \E metric \in MetricKeys, strict \in BOOLEAN :
        /\ timeline' = TimelineDraw(sessions, metric, strict)
        /\ ret' = [exc |-> timeline'.exc, msgs |-> <<>>,
                   series |-> Series(sessions, metric, 1),
                   ys |-> IF sessions = <<>> \/ Raised(Series(sessions, metric, 1)) THEN <<>>
                          ELSE PointYs(sessions, Series(sessions, metric, 1).val)]
        /\ op' = "draw"
        /\ arg' = [k |-> "metric", metric |-> metric]
        /\ UNCHANGED <<sessions, current_idx, timeline_metric, session_count_var, brainbar, disk>>
        /\ UNCHANGED beside_neurosync

NextTimeline == EnterForSeries \/ LoadForSeries \/ CallTimelineDraw

SpecTimeline == Init /\ [][NextTimeline]_vars

\* The field a metric key names: itself for the five metrics, sanding for
\* every other key.
FieldOf(metric) == IF metric \in Metrics THEN metric ELSE "sanding"

\* The same value: identical, or equal as numbers (0 and 0.0).
SameValue(a, b) == a = b \/ PyEq(a, b)

\* C15 (as claimed): for any Store and any metric key the series of the
\* timeline has the Store's length and its i-th value is the field of
\* session i that the key names, sanding for a key outside the five.
C15_AsClaimed ==
    op = "draw" =>
        /\ ~Raised(ret.series)
        /\ Len(ret.series.val) = Len(sessions)
        /\ \A i \in 1..Len(sessions) :
              SameValue(ret.series.val[i], sessions[i][FieldOf(arg.metric)])

\* float() takes the value: a number, or a text that reads as one.
Floatable(v) == IsNumber(v) \/ (v.k = "str" /\ ~Raised(ParseFloat(v.s)))

\* C15 (amended): for sanding, beta, coherence and every key outside the
\* five metrics (which gives the sanding series) the series has the Store's
\* length and its i-th value is session i's field as it is; for hrv and
\* heart_rate the i-th value is float() of the field: the same number for a
\* number, the number read from it for a text; when float() refuses a
\* session's field (None, a text that is no number) draw raises and plots
\* nothing.
C15_MetricProjection ==
    op = "draw" =>
        LET f == FieldOf(arg.metric) IN
        IF f \in {"hrv", "heart_rate"}
        THEN IF \A i \in 1..Len(sessions) : Floatable(sessions[i][f])
             THEN /\ ~Raised(ret.series)
                  /\ Len(ret.series.val) = Len(sessions)
                  /\ \A i \in 1..Len(sessions) :
                        /\ ret.series.val[i].k \in {"float", "big", "nan"}
                        /\ IF sessions[i][f].k = "str"
                           THEN ret.series.val[i] = ParseFloat(sessions[i][f].s).val
                           ELSE SameValue(ret.series.val[i], sessions[i][f])
             ELSE /\ Raised(ret.series)
                  /\ ret.exc \in {"TypeError", "ValueError"}
                  /\ timeline.points = 0
        ELSE /\ ~Raised(ret.series)
             /\ Len(ret.series.val) = Len(sessions)
             /\ \A i \in 1..Len(sessions) : ret.series.val[i] = sessions[i][f]

\* C15 witness: the hrv series of three sessions, the second of which
\* holds its hrv as a text.
C15_Witness ==
    /\ op = "draw"
    /\ arg.metric = "hrv"
    /\ Len(sessions) = 3
    /\ sessions[2]["hrv"] = PyStr("7")
    /\ ret.series = [exc |-> "", val |-> <<PyFloat(25), PyFloat(7), PyFloat(25)>>]

\* A key outside the five metrics gave the sanding series.
OtherKeyGivesSanding ==
    /\ op = "draw"
    /\ arg.metric = "gamma"
    /\ Len(sessions) = 3
    /\ ret.series = [exc |-> "", val |-> <<PyFloat(9), PyInt(4), PyFloat(-2)>>]

\* draw was called on a Store that is not empty and built a series of
\* numbers.
SeriesDrawn ==
    /\ op = "draw"
    /\ sessions # <<>>
    /\ ~Raised(ret.series)
    /\ \A i \in 1..Len(ret.series.val) : IsNumber(ret.series.val[i])

\* v is the least (the greatest) value of the series.
IsLeast(v, vs) == (\E i \in 1..Len(vs) : vs[i] = v) /\ \A i \in 1..Len(vs) : ~Gt(v, vs[i])
IsGreatest(v, vs) == (\E i \in 1..Len(vs) : vs[i] = v) /\ \A i \in 1..Len(vs) : ~Gt(vs[i], v)

\* The position lies between the top and the bottom line of the plot area.
InPlot(y) ==
    /\ y.den > 0
    /\ PadTop * y.den <= y.num
    /\ y.num <= (PadTop + PlotHeight) * y.den

\* Position a is not below position b on the screen.
NotLower(a, b) == a.den > 0 /\ b.den > 0 /\ a.num * b.den <= b.num * a.den

\* The scaling the claim describes, for the values vs.
ScaledAsClaimed(vs) ==
    /\ IsLeast(timeline.lo, vs)
    /\ IF \E i \in 1..Len(vs) : ~PyEq(vs[i], vs[1])
       THEN IsGreatest(timeline.hi, vs)
       ELSE Rank(timeline.hi) = Rank(timeline.lo) /\ Span(timeline.hi, timeline.lo) = 1
    /\ ~PyEq(timeline.hi, timeline.lo)
    /\ ret.exc # "ZeroDivisionError"
    /\ Len(ret.ys) = Len(vs)
    /\ \A i \in 1..Len(ret.ys) : InPlot(ret.ys[i])
    /\ \A i, j \in 1..Len(ret.ys) : Gt(vs[i], vs[j]) => NotLower(ret.ys[i], ret.ys[j])

\* C16: for any non-empty series the y-domain is [min, max] of the series
\* when they differ and [min, min + 1] when they are equal, so the divisor
\* max - min is never zero; every point's vertical position lies inside the
\* plot area, and a larger value is never drawn lower than a smaller one.
C16_TimelineScaling == SeriesDrawn => ScaledAsClaimed(ret.series.val)

\* The part of it on the divisor alone.
DivisorNeverZero == SeriesDrawn => ret.exc # "ZeroDivisionError"

\* The same scaling for a series of numbers below 2^53 that holds no NaN,
\* where it holds.
ScalingOfOrdinarySeries ==
    (SeriesDrawn /\ \A i \in 1..Len(ret.series.val) :
                        IsFinite(ret.series.val[i]) /\ Rank(ret.series.val[i]) = 0)
        => ScaledAsClaimed(ret.series.val)

\* Three different ordinary values were scaled: the least on the bottom
\* line, the greatest on the top line.
OrdinaryScaled ==
    /\ op = "draw"
    /\ arg.metric = "sanding"
    /\ ret.series = [exc |-> "", val |-> <<PyFloat(3), PyFloat(9), PyFloat(-2)>>]
    /\ timeline.lo = PyFloat(-2)
    /\ timeline.hi = PyFloat(9)
    /\ NotLower(ret.ys[2], Pos(PadTop, 1))
    /\ NotLower(Pos(PadTop + PlotHeight, 1), ret.ys[3])
    /\ ret.ys[1] = Pos(PadTop * 11 + PlotHeight * 6, 11)

\* ---- long Stores: the x labels of the timeline

MaxLabelSessions == 31

\* JSON files of one session each: a timestamp that is a number, a sanding
\* that is a text.
LabelDocs ==
    {JsonList(<<ItemDict(<<Pair("timestamp", "5")>>)>>),
     JsonList(<<ItemDict(<<Pair("sanding", "\"high\"")>>)>>)}

\* The session is one a manual entry with the dialog's values made.
FromDefaultForm(s) == s = FormSession(DefaultForm)

EnterForLabels ==
    \E strict \in BOOLEAN :
        /\ Len(sessions) < MaxLabelSessions
        /\ Do("save", DefaultForm, save(App, timeline_metric, DefaultForm, strict))
        /\ UNCHANGED <<timeline_metric, disk>>

\* load_json of one of the files, once in a run.
LoadForLabels ==
    \E doc \in LabelDocs, strict \in BOOLEAN :
        /\ Len(sessions) < MaxLabelSessions
        /\ \A i \in 1..Len(sessions) : FromDefaultForm(sessions[i])
        /\ Do("load_json", JsonFile(doc), load_json(App, timeline_metric, JsonFile(doc), strict))
        /\ UNCHANGED <<timeline_metric, disk>>

MetricForLabels ==
    \E metric \in OpsMetrics, strict \in BOOLEAN :
        /\ timeline_metric' = metric
        /\ Do("redraw_timeline", [k |-> "metric", metric |-> metric],
              redraw_timeline(App, metric, strict))
        /\ UNCHANGED disk

NextLabels == EnterForLabels \/ LoadForLabels \/ MetricForLabels

SpecLabels == Init /\ [][NextLabels]_vars

\* The timeline was drawn by the step that led here, for a Store that is
\* not empty.
JustDrawn == op \in {"save", "load_json", "redraw_timeline"} /\ sessions # <<>>

\* ceil(n / d) and floor(n / d), at least 1.
CeilDiv(n, d) == (n + d - 1) \div d
FloorDivMin1(n, d) == IF n \div d >= 1 THEN n \div d ELSE 1

\* C17 (as claimed): with n sessions a label is drawn for every session
\* when n <= 20, and when n > 20 exactly for the sessions whose 0-based
\* index is a multiple of ceil(n / 15).
C17_AsClaimed ==
    (JustDrawn /\ \A i \in 1..Len(sessions) : FromDefaultForm(sessions[i])) =>
        LET n == Len(sessions) IN
        timeline.labels = {i \in 0..(n - 1) : n <= 20 \/ i % CeilDiv(n, 15) = 0}

\* The values of the metric cannot be scaled: one is no number, or float()
\* refuses it.
SeriesFails ==
    \/ Raised(Series(sessions, timeline_metric, 1))
    \/ \E i \in 1..Len(sessions) : ~IsNumber(Series(sessions, timeline_metric, 1).val[i])

\* The label of the session at 0-based index i cannot be written: its
\* timestamp is neither a text nor falsy.
Unlabellable(i) ==
    sessions[i + 1]["timestamp"].k # "str" /\ Truthy(sessions[i + 1]["timestamp"])

\* C17 (amended): with n sessions, draw writes the label of the session at
\* 0-based index i exactly when n <= 20 or i is a multiple of
\* max(1, floor(n / 15)), so for every session up to n = 29, as far as it
\* gets: it writes no label when the series cannot be built or scaled, and
\* it stops with TypeError at the first session due a label whose timestamp
\* is neither a text nor falsy, writing no label from there on.
C17_Labels ==
    JustDrawn =>
        LET n == Len(sessions)
            due(i) == n <= 20 \/ i % FloorDivMin1(n, 15) = 0
            stopped(i) == \E j \in 0..i : due(j) /\ Unlabellable(j)
        IN  IF SeriesFails THEN timeline.labels = {} /\ Raised(timeline)
            ELSE /\ timeline.labels = {i \in 0..(n - 1) : due(i) /\ ~stopped(i)}
                 /\ (\E i \in 0..(n - 1) : stopped(i)) => timeline.exc = "TypeError"

\* C17 witness: 31 sessions, labelled at every second index.
C17_Witness ==
    /\ JustDrawn
    /\ Len(sessions) = 31
    /\ timeline.exc = ""
    /\ timeline.labels = {2 * i : i \in 0..15}

\* 29 sessions, every one labelled.
AllOf29Labelled ==
    /\ JustDrawn
    /\ Len(sessions) = 29
    /\ timeline.labels = 0..28

\* ---- the bars of imported sessions

\* The texts a band's cell holds.
BandCells == {"0", "40", "150", "-100", "nan"}

\* CSV files of one row with a column for each band.
BandFiles ==
    {CsvFile(<<<<"Gamma", "Beta", "Alpha", "Theta", "Delta">>, <<g, b, a, h, d>>>>, FALSE) :
        g \in BandCells, b \in BandCells, a \in BandCells, h \in BandCells, d \in BandCells}

\* load_csv of such a file into the empty Store; refresh() selects the
\* session and draws its bars.
ImportBands ==
    \E file \in BandFiles, strict \in BOOLEAN :
        /\ sessions = <<>>
        /\ Do("load_csv", file, load_csv(App, timeline_metric, file, strict))
        /\ UNCHANGED <<timeline_metric, disk>>

\* A click on the point of the session draws the bars again.
ClickBands ==
    \E idx \in 0..(timeline.points - 1), strict \in BOOLEAN :
        /\ Do("click", [k |-> "point", idx |-> idx], click(App, idx, strict))
        /\ UNCHANGED <<timeline_metric, disk>>

NextBars == ImportBands \/ ClickBands

SpecBars == Init /\ [][NextBars]_vars

\* The five band values of the selected session and their sum.
BandOf(i) == sessions[current_idx + 1][BandNames[i]]
BandSum == BandOf(1).n + BandOf(2).n + BandOf(3).n + BandOf(4).n + BandOf(5).n

\* The bars of a session were drawn, whose bands are numbers without NaN
\* and not all zero.
BarsDue ==
    /\ op \in {"load_csv", "click"}
    /\ sessions # <<>>
    /\ \A i \in 1..5 : IsFinite(BandOf(i))
    /\ \E i \in 1..5 : BandOf(i).n # 0

\* Bar i is as wide as the claim says: value/100 of the maximum bar width
\* when the sum is at most 100, value/sum of it otherwise.
WidthAsClaimed(i) ==
    /\ brainbar.bars[i].den > 0
    /\ brainbar.bars[i].num * (IF BandSum <= 100 THEN 100 ELSE BandSum)
          = BandOf(i).n * MaxBar * brainbar.bars[i].den

\* Bar i is not wider than the maximum bar width.
WithinChart(i) ==
    brainbar.bars[i].den > 0 /\ brainbar.bars[i].num <= MaxBar * brainbar.bars[i].den

\* C18: for every Session that can be in the Store, each band's bar width is
\* value/100 of the maximum bar width when the sum of the five bands is at
\* most 100 and value/sum of it otherwise, and no bar is ever wider than the
\* maximum bar width of the chart.
C18_BarWidths ==
    BarsDue =>
        /\ Len(brainbar.bars) = 5
        /\ \A i \in 1..5 : WidthAsClaimed(i) /\ WithinChart(i)

\* The part of it on the chart's width alone, where bars are drawn.
NoBarWiderThanChart ==
    (BarsDue /\ Len(brainbar.bars) = 5) => \A i \in 1..5 : WithinChart(i)

\* The same for sessions none of whose bands is negative, where it holds.
BarsOfNonNegativeBands ==
    (BarsDue /\ \A i \in 1..5 : BandOf(i).n >= 0) =>
        /\ Len(brainbar.bars) = 5
        /\ \A i \in 1..5 : WidthAsClaimed(i) /\ WithinChart(i)

\* Bars of a sum above 100 were drawn: 150 of 190 and 40 of 190.
SharesDrawn ==
    /\ op = "load_csv"
    /\ BandOf(1) = PyFloat(150) /\ BandOf(2) = PyFloat(40) /\ BandSum = 190
    /\ brainbar.bars[1].num * 190 = 150 * MaxBar * brainbar.bars[1].den
    /\ brainbar.bars[2].num * 190 = 40 * MaxBar * brainbar.bars[2].den

\* ------------------------------------------------- JSONSMOOSHER.py: chunker

MaxThreads == 2

\* A source file is the sequence of rows csv.reader yields from it, the
\* header first; <<>> is an empty file.
SourceRows == <<"id", "a", "b", "c", "d", "e", "f", "g", "h">>
Source(r) == SubSeq(SourceRows, 1, r + 1)

\* A worker thread is [pc, source, size, rows, chunk_index, processed_rows,
\* files, ending]: it makes the directory and counts the lines ("counting"),
\* opens the file and reads the header ("opening"), reads rows and writes
\* chunks ("chunking"), has put its last message and is about to return
\* ("exiting"), or has returned ("dead").  rows are the data rows not read
\* yet, files the chunk files written so far, each [part, header, rows], and
\* ending the type of the last message put.
NewWorker(source, size) ==
    [pc |-> "counting", source |-> source, size |-> size, rows |-> <<>>,
     chunk_index |-> 1, processed_rows |-> 0, files |-> <<>>, ending |-> ""]

\* A message of the queue: its type, the number it carries (the chunk count
\* of COMPLETE, the rows of the others) and the thread that put it.
Msg(type, t, n) == [type |-> type, thread |-> t, n |-> n]

\* thread.is_alive()
IsAlive(t) == workers[t].pc # "dead"

\* The threads that are running.
Running == {t \in 1..Len(workers) : IsAlive(t)}

Endings == {"COMPLETE", "ERROR"}

\* Whether a drain of the queue q takes a COMPLETE or an ERROR.
Ended(q) == \E i \in 1..Len(q) : q[i].type \in Endings

\* The place of the first COMPLETE or ERROR of the queue.
EndingAt(q) ==
    CHOOSE i \in 1..Len(q) :
        q[i].type \in Endings /\ \A j \in 1..(i - 1) : q[j].type \notin Endings

\* The messages check_thread_status takes from q: up to the first COMPLETE
\* or ERROR, or all of them.
Taken(q) == IF Ended(q) THEN SubSeq(q, 1, EndingAt(q)) ELSE q

\* What it leaves in the queue.
Remaining(q) == IF Ended(q) THEN SubSeq(q, EndingAt(q) + 1, Len(q)) ELSE <<>>

\* The status line: its kind and the chunk count it names.
Status(text, chunks) == [text |-> text, chunks |-> chunks]

\* Where the UI thread is inside check_thread_status(thread): not in it
\* ("idle"), about to take messages ("get_nowait"), or in the handler of
\* queue.Empty, about to ask thread.is_alive() ("is_alive").
At(at, t) == [at |-> at, thread |-> t]
Idle == At("idle", 0)

\* The try block of check_thread_status on the queue q with the flag p and
\* the status line st: COMPLETE and ERROR clear the flag, set the status and
\* end the call; an empty queue leads to the handler of queue.Empty.
check_thread_status(q, p, st) ==
    IF Ended(q)
    THEN [processing |-> FALSE, task_queue |-> Remaining(q), took |-> Taken(q),
          status_var |-> IF q[EndingAt(q)].type = "COMPLETE"
                         THEN Status("COMPLETE", q[EndingAt(q)].n)
                         ELSE Status("ERROR", 0),
          msgs |-> IF q[EndingAt(q)].type = "ERROR"
                   THEN <<Box("showerror", "Processing Error", 0)>> ELSE <<>>,
          at |-> "idle"]
    ELSE [processing |-> p, task_queue |-> <<>>, took |-> q, status_var |-> st,
          msgs |-> <<>>, at |-> "is_alive"]

\* The chunker's handler name has run on input, shown msgs and taken the
\* messages took from the queue; the other program is not touched.
ChunkerDid(name, input, msgs, took) ==
    /\ op' = name
    /\ arg' = input
    /\ ret' = [msgs |-> msgs, exc |-> "", took |-> took]
    /\ UNCHANGED beside_chunker

\* What START CHUNKING finds in the entries: the path, whether a file is
\* there, the rows of the file and the text of the chunk size.
Entries(path, exists, source, size) ==
    [k |-> "entries", path |-> path, exists |-> exists, source |-> source,
     chunk_size |-> size]

\* int(self.chunk_size.get()) raises ValueError, or the size is below 1.
InvalidSize(text) == ~IsIntText(Strip(text)) \/ IntValue(Strip(text)) < 1

\* Whether start_chunking refuses the entries.
Refused(input) == input.path = "" \/ ~input.exists \/ InvalidSize(input.chunk_size)

\* The box start_chunking shows for entries it refuses.
RefusalBox(input) ==
    IF input.path = "" THEN Box("showwarning", "No File", 0)
    ELSE IF ~input.exists THEN Box("showerror", "File Not Found", 0)
    ELSE Box("showwarning", "Invalid Size", 0)

\* CSVChunkerGUI.start_chunking up to its call of check_thread_status: the
\* flag is set, the thread is started.
start_chunking(input) ==
    /\ ui_thread = Idle
    /\ IF processing
       THEN /\ ChunkerDid("start_chunking", input, <<>>, <<>>)
            /\ UNCHANGED chunker_vars
       ELSE IF Refused(input)
       THEN /\ ChunkerDid("start_chunking", input, <<RefusalBox(input)>>, <<>>)
            /\ UNCHANGED chunker_vars
       ELSE /\ Len(workers) < MaxThreads
            /\ processing' = TRUE
            /\ status_var' = Status("PROCESSING", 0)
            /\ workers' = Append(workers,
                                 NewWorker(input.source, IntValue(Strip(input.chunk_size))))
            /\ ui_thread' = At("get_nowait", Len(workers) + 1)
            /\ ChunkerDid("start_chunking", input, <<>>, <<>>)
            /\ UNCHANGED <<task_queue, polls>>

\* The entries of the runs with two threads.
ChunkerInputs ==
    {Entries("in.csv", TRUE, Source(1), "1"),
     Entries("", FALSE, <<>>, "1"),
     Entries("gone.csv", FALSE, <<>>, "1"),
     Entries("in.csv", TRUE, Source(1), "0")}

StartChunking == \E input \in ChunkerInputs : start_chunking(input)

\* CSVChunkerGUI.stop_processing: the flag is cleared and the status line
\* set; the thread is not told.
StopProcessing ==
    /\ ui_thread = Idle
    /\ processing' = FALSE
    /\ status_var' = IF processing THEN Status("STOPPED", 0) ELSE status_var
    /\ ChunkerDid("stop_processing", NoInput, <<>>, <<>>)
    /\ UNCHANGED <<task_queue, workers, polls, ui_thread>>

\* check_thread_status(thread), called by start_chunking or by the timer:
\* the messages are taken.
CheckThreadStatus ==
    \E t \in 1..Len(workers) :
        /\ \/ ui_thread = Idle /\ t \in polls
           \/ ui_thread = At("get_nowait", t)
        /\ processing' = check_thread_status(task_queue, processing, status_var).processing
        /\ task_queue' = check_thread_status(task_queue, processing, status_var).task_queue
        /\ status_var' = check_thread_status(task_queue, processing, status_var).status_var
        /\ ui_thread' = IF Ended(task_queue) THEN Idle ELSE At("is_alive", t)
        /\ polls' = polls \ {t}
        /\ ChunkerDid("check_thread_status", [k |-> "thread", thread |-> t],
                      check_thread_status(task_queue, processing, status_var).msgs,
                      Taken(task_queue))
        /\ UNCHANGED workers

\* The handler of queue.Empty: the next call is scheduled while the thread
\* is alive; when it is not, the flag is cleared and the status line says
\* that the thread terminated unexpectedly.
WhenEmpty ==
    /\ ui_thread.at = "is_alive"
    /\ IF IsAlive(ui_thread.thread)
       THEN /\ polls' = polls \cup {ui_thread.thread}
            /\ UNCHANGED <<processing, status_var>>
       ELSE /\ processing' = FALSE
            /\ status_var' = Status("UNKNOWN", 0)
            /\ UNCHANGED polls
    /\ ui_thread' = Idle
    /\ ChunkerDid("check_thread_status", arg, <<>>, ret.took)
    /\ UNCHANGED <<task_queue, workers>>

\* A step of the worker t: it becomes w and puts the messages put; the
\* programs' handlers are left as they were.
WorkerStep(t, w, put) ==
    /\ workers' = [workers EXCEPT ![t] = w]
    /\ task_queue' = task_queue \o put
    /\ UNCHANGED <<beside_chunker, op, arg, ret, processing, polls, ui_thread, status_var>>

\* The except branch of chunk_csv_thread.
Failing(t) ==
    WorkerStep(t, [workers[t] EXCEPT !.pc = "exiting", !.ending = "ERROR"],
               <<Msg("ERROR", t, 0)>>)

\* chunk_csv_thread: the output directory is made and the lines are counted,
\* or that raises.
WorkerCount ==
    \E t \in 1..Len(workers), ok \in BOOLEAN :
        /\ workers[t].pc = "counting"
        /\ IF ok
           THEN WorkerStep(t, [workers[t] EXCEPT !.pc = "opening"],
                           <<Msg("PROGRESS_MAX", t, Len(workers[t].source) - 1)>>)
           ELSE Failing(t)

\* chunk_csv_thread: the file is opened again and next(reader) gives the
\* header; open raises, or next does on a file without a row.
WorkerHeader ==
    \E t \in 1..Len(workers), ok \in BOOLEAN :
        /\ workers[t].pc = "opening"
        /\ IF ok /\ workers[t].source # <<>>
           THEN WorkerStep(t, [workers[t] EXCEPT !.pc = "chunking",
                                                 !.rows = Tail(workers[t].source)],
                           <<>>)
           ELSE Failing(t)

ProgressEvery == 100

RECURSIVE ProgressPuts(_, _, _)
\* The PROGRESS and LOG messages put while rows p + 1 .. p + n are read.
ProgressPuts(t, p, n) ==
    IF n = 0 THEN <<>>
    ELSE ProgressPuts(t, p, n - 1)
         \o (IF (p + n) % ProgressEvery = 0
             THEN <<Msg("PROGRESS", t, p + n), Msg("LOG", t, p + n)>>
             ELSE <<>>)

\* A chunk of one row more than the size.
ChunkRowsOneMore(w) == IF Len(w.rows) < w.size + 1 THEN Len(w.rows) ELSE w.size + 1

\* How many rows the next chunk takes: size of them, or those that are left.
ChunkRows(w) == IF Len(w.rows) < w.size THEN Len(w.rows) ELSE w.size

\* write_chunk_gui(header, chunk_data, chunk_index, ...): the file written.
write_chunk_gui(w) ==
    [part |-> w.chunk_index, header |-> Head(w.source),
     rows |-> SubSeq(w.rows, 1, ChunkRows(w))]

\* The worker after the rows of its next chunk are read and written: the
\* index goes up after a chunk of full size only.
Chunked(w) ==
    [w EXCEPT !.rows = SubSeq(w.rows, ChunkRows(w) + 1, Len(w.rows)),
              !.processed_rows = w.processed_rows + ChunkRows(w),
              !.chunk_index = IF ChunkRows(w) >= w.size THEN w.chunk_index + 1
                              ELSE w.chunk_index,
              !.files = Append(w.files, write_chunk_gui(w))]

\* chunk_csv_thread: the rows of one chunk are read and the chunk is
\* written, in the loop or after it, or writing raises.
WorkerWriteChunk ==
    \E t \in 1..Len(workers), ok \in BOOLEAN :
        /\ workers[t].pc = "chunking"
        /\ workers[t].rows # <<>>
        /\ IF ok
           THEN WorkerStep(t, Chunked(workers[t]),
                           ProgressPuts(t, workers[t].processed_rows, ChunkRows(workers[t]))
                           \o <<Msg("CHUNK_WRITTEN", t, ChunkRows(workers[t]))>>)
           ELSE Failing(t)

\* chunk_csv_thread: the file is read to its end and nothing is left to
\* write.
WorkerComplete ==
    \E t \in 1..Len(workers) :
        /\ workers[t].pc = "chunking"
        /\ workers[t].rows = <<>>
        /\ WorkerStep(t, [workers[t] EXCEPT !.pc = "exiting", !.ending = "COMPLETE"],
                      <<Msg("COMPLETE", t, workers[t].chunk_index)>>)

\* chunk_csv_thread returns.
WorkerExit ==
    \E t \in 1..Len(workers) :
        /\ workers[t].pc = "exiting"
        /\ WorkerStep(t, [workers[t] EXCEPT !.pc = "dead"], <<>>)

NextChunker ==
    \/ StartChunking
    \/ StopProcessing
    \/ CheckThreadStatus
    \/ WhenEmpty
    \/ WorkerCount
    \/ WorkerHeader
    \/ WorkerWriteChunk
    \/ WorkerComplete
    \/ WorkerExit

SpecChunker == Init /\ [][NextChunker]_vars

\* C20: across any sequence of START CHUNKING and STOP presses, at most
\* one chunking worker thread is running at any time.
C20_OneWorker == Cardinality(Running) <= 1

\* No thread is started while the flag is set.
NoStartWhileProcessing ==
    [][processing => Len(workers') = Len(workers)]_vars

\* Two workers are writing chunks at the same time.
TwoWorkersChunking ==
    \E t, u \in 1..Len(workers) : t # u /\ workers[t].pc = "chunking" /\ workers[u].pc = "chunking"

\* C21: when STOP is pressed while a chunking job is running, the job is
\* stopped: while the status line says STOPPED no worker writes a further
\* chunk file, and the status line never goes from STOPPED to COMPLETE.
C21_StopStopsJob ==
    [][status_var.text = "STOPPED"
       => /\ \A t \in 1..Len(workers) : workers'[t].files = workers[t].files
          /\ status_var'.text # "COMPLETE"]_vars

\* What STOP does do: while the status line says STOPPED the flag is clear.
StoppedClearsFlag == status_var.text = "STOPPED" => ~processing

\* A worker has written a chunk under a status line that says STOPPED.
WroteWhileStopped ==
    status_var.text = "STOPPED" /\ \E t \in 1..Len(workers) : workers[t].files # <<>>

\* C22: under every interleaving of the worker and the poller, a run whose
\* worker has put COMPLETE or ERROR (every worker does before it returns) is
\* never reported as "Thread terminated unexpectedly", and a call of
\* check_thread_status(thread) takes no message that another thread's run
\* has put.
C22_HandOff ==
    /\ status_var.text # "UNKNOWN"
    /\ op = "check_thread_status"
       => \A i \in 1..Len(ret.took) : ret.took[i].thread = arg.thread

\* Every worker that is about to return or has returned has put COMPLETE or
\* ERROR.
EveryThreadPutsEnding ==
    \A t \in 1..Len(workers) :
        workers[t].pc \in {"exiting", "dead"} => workers[t].ending \in Endings

\* The queue still holds the COMPLETE of a thread that was reported as
\* terminated unexpectedly.
CompleteLeftBehind ==
    /\ status_var.text = "UNKNOWN"
    /\ \E i \in 1..Len(task_queue) : task_queue[i].type = "COMPLETE"

\* ---- one run after the other, not interrupted

MaxRuns == 1
MaxSourceRows == 5
MaxChunkSize == 3

\* The entries of these runs: a file of 0 .. MaxSourceRows data rows and a
\* chunk size, a file without a row, or a chunk size that is refused.
PartitionInputs ==
    {Entries("in.csv", TRUE, Source(r), NatText(k)) :
        r \in 0..MaxSourceRows, k \in 1..MaxChunkSize}
    \cup {Entries("empty.csv", TRUE, <<>>, "1"),
          Entries("in.csv", TRUE, Source(2), "0"),
          Entries("in.csv", TRUE, Source(2), "-1"),
          Entries("in.csv", TRUE, Source(2), "2.5"),
          Entries("in.csv", TRUE, Source(2), " 2 ")}

\* START CHUNKING, for MaxRuns runs.
StartPartition ==
    \E input \in PartitionInputs : Len(workers) < MaxRuns /\ start_chunking(input)

NextPartition ==
    \/ StartPartition
    \/ CheckThreadStatus
    \/ WhenEmpty
    \/ WorkerCount
    \/ WorkerHeader
    \/ WorkerWriteChunk
    \/ WorkerComplete
    \/ WorkerExit

SpecPartition == Init /\ [][NextPartition]_vars

RECURSIVE DataRowsOf(_)
\* The data rows of the chunk files, file after file.
DataRowsOf(files) ==
    IF files = <<>> THEN <<>> ELSE Head(files).rows \o DataRowsOf(Tail(files))

\* The files of the worker w are the partition of its source into chunks of
\* w.size rows.
Partitioned(w) ==
    /\ w.size >= 1
    /\ Len(w.files) = CeilDiv(Len(w.source) - 1, w.size)
    /\ \A i \in 1..Len(w.files) :
        /\ w.files[i].part = i
        /\ w.files[i].header = Head(w.source)
        /\ i < Len(w.files) => Len(w.files[i].rows) = w.size
        /\ i = Len(w.files) => Len(w.files[i].rows) \in 1..w.size
    /\ DataRowsOf(w.files) = Tail(w.source)

\* C23: a run that reaches COMPLETE on a source of R data rows with chunk
\* size k has written ceil(R/k) files numbered from 1, each with the
\* source's header, all but the last of k rows and the last of 1 .. k rows,
\* which together are the source's data rows in their order.
C23_Partition ==
    \A t \in 1..Len(workers) : workers[t].ending = "COMPLETE" => Partitioned(workers[t])

\* A run of five rows in chunks of two has completed: three files, the last
\* of one row.
C23_Witness ==
    \E t \in 1..Len(workers) :
        /\ workers[t].ending = "COMPLETE"
        /\ workers[t].size = 2
        /\ Len(workers[t].files) = 3
        /\ workers[t].files[3].rows = <<"e">>

\* The last message a call of check_thread_status took is a COMPLETE.
TookComplete ==
    /\ op = "check_thread_status"
    /\ ret.took # <<>>
    /\ ret.took[Len(ret.took)].type = "COMPLETE"

\* The thread whose COMPLETE was taken.
CompletedThread == workers[ret.took[Len(ret.took)].thread]

\* C24: the number of chunks the status line names on completion is the
\* number of chunk files the worker of that run wrote.
C24_ReportedChunks ==
    TookComplete => status_var.chunks = Len(CompletedThread.files)

\* It is when the last chunk is shorter than the chunk size.
ReportedChunksOfShortLastChunk ==
    TookComplete /\ (Len(CompletedThread.source) - 1) % CompletedThread.size # 0
    => status_var.chunks = Len(CompletedThread.files)

\* A completion was reported for a source whose rows fill whole chunks.
WholeChunksReported ==
    /\ TookComplete
    /\ Len(CompletedThread.source) = 5
    /\ CompletedThread.size = 2
    /\ status_var = Status("COMPLETE", 3)

\* ----------------------------------------------- JSONSMOOSHER.py: JSON forge

MaxForges == 2

\* The folders the user can name: one holding a JSON file, one holding
\* none, and a path that does not exist.
ForgeFolders == {"/notes", "/bare", "/nowhere"}

\* os.path.exists(folder)
FolderExists(folder) == folder \in {"/notes", "/bare"}

\* glob.glob(folder/**/*.json) and *.JSON: the files found.
Glob(folder) == IF folder = "/notes" THEN <<"a.json">> ELSE <<>>

\* The output files the user can name: the second cannot be opened for
\* writing.
OutputFiles == {"DODECAGONE_FORGED.json", "/readonly/out.json"}
CanWrite(file) == file # "/readonly/out.json"

\* A forge thread is [pc, files, i]: started ("starting"), in the loop over
\* the list files it took from self.json_files, i of them done ("merging"),
\* having scheduled its last call and about to return ("exiting"), returned
\* ("dead").
NewForge == [pc |-> "starting", files |-> <<>>, i |-> 0]

\* JsonForgeGUI.processing_thread: the thread started last (0: None).
processing_thread == Len(forge_threads)

\* The forge threads that have not finished their work.
Forging == {t \in 1..Len(forge_threads) : forge_threads[t].pc \in {"starting", "merging"}}

\* The forge's handler name has run on input and shown msgs; the other
\* programs are not touched.
ForgeDid(name, input, msgs) ==
    /\ op' = name
    /\ arg' = input
    /\ ret' = Outcome(msgs, "")
    /\ UNCHANGED beside_forge

\* validate_inputs, the write trace of input_var: the state it gives the
\* SCAN button for the entry's text.
validate_inputs(text) == IF text # "" /\ FolderExists(text) THEN "normal" ELSE "disabled"

\* scan_folder() for the entry's text folder, the FORGE button being btn:
\* nothing happens for an empty entry; else the list is replaced by the
\* files found, or cut short when glob raises (scanned FALSE), and the FORGE
\* button is set.
scan_folder(folder, scanned, files, total, btn) ==
    IF folder = "" THEN [json_files |-> files, total_files |-> total, forge_btn |-> btn]
    ELSE IF ~scanned THEN [json_files |-> <<>>, total_files |-> total, forge_btn |-> "disabled"]
    ELSE [json_files |-> Glob(folder), total_files |-> Len(Glob(folder)),
          forge_btn |-> IF Len(Glob(folder)) > 0 THEN "normal" ELSE "disabled"]

\* The list, the count and the FORGE button become what the scan s gives.
Scanned(s) ==
    /\ json_files' = s.json_files
    /\ total_files' = s.total_files
    /\ forge_btn' = s.forge_btn

\* BROWSE: select_input_folder.  A chosen folder is written to the entry,
\* which runs validate_inputs, and scan_folder() is called.
SelectInputFolder ==
    \E folder \in {"/notes", "/bare", ""}, scanned \in BOOLEAN :
        /\ IF folder = ""
           THEN UNCHANGED <<input_var, scan_btn, json_files, total_files, forge_btn>>
           ELSE /\ input_var' = folder
                /\ scan_btn' = validate_inputs(folder)
                /\ Scanned(scan_folder(folder, scanned, json_files, total_files, forge_btn))
        /\ ForgeDid("select_input_folder", [k |-> "folder", folder |-> folder], <<>>)
        /\ UNCHANGED <<output_var, forge_threads, after_calls>>

\* The user types in the folder entry: input_var is written, which runs
\* validate_inputs.
EditInput ==
    \E text \in ForgeFolders :
        /\ input_var' = text
        /\ scan_btn' = validate_inputs(text)
        /\ ForgeDid("validate_inputs", [k |-> "text", text |-> text], <<>>)
        /\ UNCHANGED <<forge_btn, output_var, json_files, total_files, forge_threads,
                       after_calls>>

\* SAVE AS: select_output_file.
SelectOutputFile ==
    \E file \in OutputFiles \cup {""} :
        /\ output_var' = IF file = "" THEN output_var ELSE file
        /\ ForgeDid("select_output_file", [k |-> "file", file |-> file], <<>>)
        /\ UNCHANGED <<scan_btn, forge_btn, input_var, json_files, total_files,
                       forge_threads, after_calls>>

\* CLEAR LOG: clear_log.
ClearLog ==
    /\ op # "clear_log"
    /\ ForgeDid("clear_log", NoInput, <<>>)
    /\ UNCHANGED forge_vars

\* SCAN FOLDER, which can be pressed while the button is not disabled.
ScanFolder ==
    \E scanned \in BOOLEAN :
        /\ scan_btn = "normal"
        /\ Scanned(scan_folder(input_var, scanned, json_files, total_files, forge_btn))
        /\ ForgeDid("scan_folder", NoInput, <<>>)
        /\ UNCHANGED <<scan_btn, input_var, output_var, forge_threads, after_calls>>

\* FORGE MERGE, which can be pressed while the button is not disabled:
\* start_forge.  Both buttons are disabled, the thread is started, and
\* monitor_progress() finds it alive and schedules itself.
StartForge ==
    /\ forge_btn = "normal"
    /\ IF json_files = <<>>
       THEN /\ ForgeDid("start_forge", NoInput, <<Box("showwarning", "No Files", 0)>>)
            /\ UNCHANGED forge_vars
       ELSE /\ Len(forge_threads) < MaxForges
            /\ scan_btn' = "disabled"
            /\ forge_btn' = "disabled"
            /\ forge_threads' = Append(forge_threads, NewForge)
            /\ after_calls' = Append(after_calls, "monitor_progress")
            /\ ForgeDid("start_forge", NoInput, <<>>)
            /\ UNCHANGED <<input_var, output_var, json_files, total_files>>

\* after_calls without its i-th call.
Without(calls, i) == SubSeq(calls, 1, i - 1) \o SubSeq(calls, i + 1, Len(calls))

\* A scheduled call runs.  monitor_progress schedules itself again while
\* the thread started last is alive; forge_complete enables both buttons and
\* shows its box; the logging of a crash changes nothing else.
RunAfter ==
    \E i \in 1..Len(after_calls) :
        /\ after_calls' =
              IF after_calls[i] = "monitor_progress"
                 /\ processing_thread > 0
                 /\ forge_threads[processing_thread].pc # "dead"
              THEN Append(Without(after_calls, i), "monitor_progress")
              ELSE Without(after_calls, i)
        /\ IF after_calls[i] = "forge_complete"
           THEN /\ scan_btn' = "normal"
                /\ forge_btn' = "normal"
                /\ ForgeDid("forge_complete", NoInput, <<Box("showinfo", "Forge Complete", 0)>>)
           ELSE /\ ForgeDid(after_calls[i], NoInput, <<>>)
                /\ UNCHANGED <<scan_btn, forge_btn>>
        /\ UNCHANGED <<input_var, output_var, json_files, total_files, forge_threads>>

\* A step of the forge thread t: it becomes w and schedules the calls put
\* with root.after(0, ...); the programs' handlers are left as they were.
ForgeStep(t, w, put) ==
    /\ forge_threads' = [forge_threads EXCEPT ![t] = w]
    /\ after_calls' = after_calls \o put
    /\ UNCHANGED <<beside_forge, op, arg, ret, scan_btn, forge_btn, input_var, output_var,
                   json_files, total_files>>

\* The outer except branch of forge_process: the crash is logged through
\* root.after and the thread returns.
Crashing(t) ==
    ForgeStep(t, [forge_threads[t] EXCEPT !.pc = "exiting"], <<"log_crash">>)

\* forge_process up to its loop: the ledger is made and the loop takes the
\* list self.json_files names at that moment.
ForgeBegin ==
    \E t \in 1..Len(forge_threads) :
        /\ forge_threads[t].pc = "starting"
        /\ ForgeStep(t, [forge_threads[t] EXCEPT !.pc = "merging", !.files = json_files], <<>>)

\* forge_process: one pass of the loop.  The file is read and filtered, an
\* error of that is kept in errors, and the progress is computed from
\* self.total_files, which raises ZeroDivisionError when that is 0.
ForgeFile ==
    \E t \in 1..Len(forge_threads) :
        /\ forge_threads[t].pc = "merging"
        /\ forge_threads[t].i < Len(forge_threads[t].files)
        /\ IF total_files = 0
           THEN Crashing(t)
           ELSE ForgeStep(t, [forge_threads[t] EXCEPT !.i = forge_threads[t].i + 1], <<>>)

\* forge_process after the loop: the merged file and its backup are
\* written and forge_complete is scheduled, or open raises.
ForgeSave ==
    \E t \in 1..Len(forge_threads) :
        /\ forge_threads[t].pc = "merging"
        /\ forge_threads[t].i = Len(forge_threads[t].files)
        /\ IF CanWrite(output_var)
           THEN ForgeStep(t, [forge_threads[t] EXCEPT !.pc = "exiting"], <<"forge_complete">>)
           ELSE Crashing(t)

\* forge_process returns.
ForgeExit ==
    \E t \in 1..Len(forge_threads) :
        /\ forge_threads[t].pc = "exiting"
        /\ ForgeStep(t, [forge_threads[t] EXCEPT !.pc = "dead"], <<>>)

NextForge ==
    \/ SelectInputFolder
    \/ EditInput
    \/ SelectOutputFile
    \/ ClearLog
    \/ ScanFolder
    \/ StartForge
    \/ RunAfter
    \/ ForgeBegin
    \/ ForgeFile
    \/ ForgeSave
    \/ ForgeExit

SpecForge == Init /\ [][NextForge]_vars

\* C25: from the start of a forge worker until it has finished, SCAN and
\* FORGE stay disabled whatever the user does in the window, no second
\* worker is started and self.json_files is not replaced.
C25_ButtonsStayDisabled ==
    [][Forging # {}
       => /\ scan_btn' = "disabled"
          /\ forge_btn' = "disabled"
          /\ Len(forge_threads') = Len(forge_threads)
          /\ json_files' = json_files]_vars

\* start_forge itself leaves both buttons disabled.
StartForgeDisables ==
    [][Len(forge_threads') > Len(forge_threads)
       => scan_btn' = "disabled" /\ forge_btn' = "disabled"]_vars

\* Two forge threads are in their loops at the same time.
TwoForging == Cardinality(Forging) = 2

\* The thread and the timer run whenever they can; the user need not act.
SpecForgeLive ==
    /\ Init
    /\ [][NextForge]_vars
    /\ WF_vars(ForgeBegin)
    /\ WF_vars(ForgeFile)
    /\ WF_vars(ForgeSave)
    /\ WF_vars(ForgeExit)
    /\ WF_vars(RunAfter)

\* C26: every forge run that is started ends with SCAN and FORGE enabled
\* again, whether the worker finished the merge or failed.
C26_ButtonsComeBack ==
    (Forging # {}) ~> (scan_btn = "normal" /\ forge_btn = "normal")

\* A run whose thread schedules forge_complete does get both buttons back.
CompletedRunEnablesButtons ==
    (\E i \in 1..Len(after_calls) : after_calls[i] = "forge_complete")
    ~> (scan_btn = "normal" /\ forge_btn = "normal")

\* A forge thread has crashed, its crash is logged, and both buttons are
\* disabled with nothing left to run.
CrashedAndDisabled ==
    /\ Forging = {}
    /\ after_calls = <<>>
    /\ op = "log_crash"
    /\ scan_btn = "disabled"
    /\ forge_btn = "disabled"
    /\ \A t \in 1..Len(forge_threads) : forge_threads[t].pc = "dead"

\* ------------------------------------------- select_session: the HRV label

WARN_RED == "#ff4444"
FG_TEXT == "#e0e0e0"

\* The text of a vital label without a value: the em dash (U+2014), written
\* here in ASCII.
EmDash == "--"

\* f"{v:.0f} ms" for a number.
HrvText(v) == IF v.k = "nan" THEN "nan ms" ELSE IntText(v.n) \o " ms"

\* fg=WARN_RED if s.hrv and float(s.hrv) < 20 else FG_TEXT, for 0 and 0.0
\* as for every other number.
HrvColourOfZeroToo(v) == IF Gt(PyFloat(20), v) THEN WARN_RED ELSE FG_TEXT

\* fg=WARN_RED if s.hrv and float(s.hrv) < 20 else FG_TEXT
HrvColour(v) == IF Truthy(v) /\ Gt(PyFloat(20), v) THEN WARN_RED ELSE FG_TEXT

\* What select_session(idx) does to vital_labels["HRV"]: the label is not
\* reached (set FALSE) when the drawing of the bars, the heart rate's format
\* or the HRV's own format raises; else it gets its text and its colour.
HrvLabel(s, strict) ==
    IF \/ Raised(BrainwaveBarDraw(s, strict))
       \/ Truthy(s["heart_rate"]) /\ ~IsNumber(s["heart_rate"])
       \/ Truthy(s["hrv"]) /\ ~IsNumber(s["hrv"])
    THEN [set |-> FALSE, text |-> "", fg |-> ""]
    ELSE [set |-> TRUE,
          text |-> IF Truthy(s["hrv"]) THEN HrvText(s["hrv"]) ELSE EmDash,
          fg |-> HrvColour(s["hrv"])]

\* The HRV values of the sessions of these runs, as JSON texts.
HrvCells == {"0", "0.0", "15", "19.0", "20", "25.0", "-5", "NaN", "null", "\"15\"", "\"\""}

\* Exports of one session with that HRV, one of them with a band that is
\* no number.
VitalsDocs ==
    {JsonList(<<ItemDict(<<Pair("hrv", c)>>)>>) : c \in HrvCells}
    \cup {JsonList(<<ItemDict(<<Pair("hrv", "15"), Pair("gamma", "\"x\"")>>)>>)}

LoadForVitals ==
    \E doc \in VitalsDocs, strict \in BOOLEAN :
        /\ Len(sessions) + Len(doc.items) <= MaxSessions
        /\ Do("load_json", JsonFile(doc), load_json(App, timeline_metric, JsonFile(doc), strict))
        /\ UNCHANGED <<timeline_metric, disk>>

\* select_session(idx) for a session of the Store, as a click on its point,
\* PREV and NEXT call it: ret keeps what it did to the HRV label.
CallSelectSession ==
    \E idx \in 0..(Len(sessions) - 1), strict \in BOOLEAN :
        /\ current_idx' = click(App, idx, strict).app.current_idx
        /\ brainbar' = click(App, idx, strict).app.brainbar
        /\ op' = "select_session"
        /\ arg' = [k |-> "point", idx |-> idx]
        /\ ret' = [msgs |-> <<>>, exc |-> click(App, idx, strict).exc,
                   HRV |-> HrvLabel(sessions[idx + 1], strict)]
        /\ UNCHANGED <<sessions, timeline_metric, session_count_var, timeline, disk>>
        /\ UNCHANGED beside_neurosync

NextVitals ==
    \/ LoadForVitals
    \/ CallSelectSession

SpecVitals == Init /\ [][NextVitals]_vars

\* The session select_session was called for last.
Selected == sessions[current_idx + 1]

\* C27 as stated: the HRV of the selected session is shown in the warning
\* red exactly when it is below 20, in the text colour otherwise.
C27_AsClaimed ==
    op = "select_session" /\ IsNumber(Selected["hrv"])
    => /\ ret.HRV.set
       /\ ret.HRV.fg = WARN_RED <=> Gt(PyFloat(20), Selected["hrv"])

\* C27: when select_session has run through, the HRV label is red exactly
\* when the session's hrv is a number other than 0 that is below 20; for
\* the hrv 0, None or "" it shows a dash in the text colour, and for every
\* other number, NaN included, the number in the text colour.
C27_HrvColour ==
    op = "select_session" /\ ret.exc = ""
    => /\ ret.HRV.set
       /\ ret.HRV.fg \in {WARN_RED, FG_TEXT}
       /\ ret.HRV.fg = WARN_RED
          <=> /\ IsNumber(Selected["hrv"])
              /\ ~PyEq(Selected["hrv"], PyInt(0))
              /\ Gt(PyFloat(20), Selected["hrv"])
       /\ ~Truthy(Selected["hrv"]) => ret.HRV.text = EmDash
       /\ Truthy(Selected["hrv"]) => ret.HRV.text = HrvText(Selected["hrv"])

\* A session with the HRV 0 is selected: a dash in the text colour.
C27_Witness ==
    /\ op = "select_session"
    /\ ret.exc = ""
    /\ Selected["hrv"] = PyInt(0)
    /\ ret.HRV = [set |-> TRUE, text |-> EmDash, fg |-> FG_TEXT]

\* A session with the HRV 15 is selected and shown in red.
LowHrvInRed ==
    /\ op = "select_session"
    /\ Selected["hrv"] = PyInt(15)
    /\ ret.HRV = [set |-> TRUE, text |-> "15 ms", fg |-> WARN_RED]

\* A session whose hrv is the text "15" is selected and the label is not
\* reached.
HrvLabelNotReached ==
    /\ op = "select_session"
    /\ Selected["hrv"] = PyStr("15")
    /\ ~ret.HRV.set

\* ------------------------------------------------ the selected session

Imports == {"load_csv", "load_json", "load_conversations"}

\* The selected index names a session of the Store, and is 0 while the
\* Store is empty.
SelectedInStore ==
    IF sessions = <<>> THEN current_idx = 0
    ELSE 0 <= current_idx /\ current_idx < Len(sessions)

\* What the application shows and holds.
shown == <<sessions, current_idx, session_count_var, timeline, brainbar>>

\* One step of the application as the selection sees it.
SelectionStep ==
    /\ SelectedInStore'
    /\ op' = "click" => current_idx' = arg'.idx
    /\ op' = "prev_session" /\ current_idx = 0 => UNCHANGED shown
    /\ op' = "next_session" /\ current_idx = Len(sessions) - 1 => UNCHANGED shown
    /\ op' \in Imports \cup {"save", "export_json", "redraw_timeline"}
       => current_idx' = current_idx

\* C28: after any sequence of imports, manual entries, clicks, PREV and
\* NEXT the selected index is 0 while the Store is empty and names one of
\* its sessions otherwise; a click on point i selects i, PREV at the first
\* session and NEXT at the last one change nothing, and an import (as a
\* manual entry, an export and a change of metric) leaves the index as it
\* was.
C28_Selection == SelectedInStore /\ [][SelectionStep]_vars

\* The second of two sessions has been selected by a click on its point.
C28_Witness ==
    /\ op = "click"
    /\ arg.idx = 1
    /\ Len(sessions) = 2
    /\ current_idx = 1

\* An import has added a second session while the first stays selected.
ImportKeepsSelection ==
    /\ op \in Imports
    /\ Len(sessions) = 2
    /\ current_idx = 0
    /\ session_count_var = 2

\* PREV is never pressed at the first session of a Store that has one.
NoPrevAtFirst == [][~(op' = "prev_session" /\ sessions # <<>> /\ current_idx = 0)]_vars

\* NEXT is never pressed at the last of two sessions.
NoNextAtLast == [][~(op' = "next_session" /\ Len(sessions) = 2 /\ current_idx = 1)]_vars

\* No import runs while the second session is selected.
NoImportAtSecond == [][~(op' \in Imports /\ current_idx = 1)]_vars

\* ------------------------------------------- what the window shows

\* C29: after every operation the session count shown and the number of
\* points plotted on the timeline both equal the length of the Store.
C29_DisplayConsistent ==
    /\ session_count_var = Len(sessions)
    /\ timeline.points = Len(sessions)

\* After an operation that raised nothing and showed no error box the count
\* shown equals the length of the Store, and the timeline plots a point for
\* every session or, for want of a series it can draw, none at all.
CleanOperationIsConsistent ==
    ret.exc = "" /\ (\A i \in 1..Len(ret.msgs) : ret.msgs[i] # ErrorBox)
    => /\ session_count_var = Len(sessions)
       /\ timeline.points \in {0, Len(sessions)}

\* An import has added a session and the timeline plots fewer points than
\* the Store holds.
SessionWithoutPoint ==
    /\ op = "load_json"
    /\ session_count_var = Len(sessions)
    /\ timeline.points < Len(sessions)

\* The count shown is behind the Store.
CountBehindStore == session_count_var < Len(sessions)

\* ------------------------------------------------------------------ the
\* file sifter (kairosfilesifter.py): execute_sort moves the files of the
\* source folder into the destination's sub-folder of their category.

MaxItems == 2
MaxTaken == 2

SourceFolder == "/in"
TargetFolder == "/out"

RECURSIVE RFind(_, _, _)
\* str.rfind(c) searched from the 1-based position i down: the 0-based
\* index of the last c, -1 when there is none.
RFind(t, c, i) ==
    IF i = 0 THEN 0 - 1
    ELSE IF SubSeq(t, i, i) = c THEN i - 1
    ELSE RFind(t, c, i - 1)

\* PurePath.suffix: the name from its last dot on, unless that dot is the
\* first or the last character.
Suffix(name) ==
    LET i == RFind(name, ".", Len(name))
    IN  IF 0 < i /\ i < Len(name) - 1 THEN SubSeq(name, i + 1, Len(name)) ELSE ""

\* PurePath.stem
Stem(name) ==
    LET i == RFind(name, ".", Len(name))
    IN  IF 0 < i /\ i < Len(name) - 1 THEN SubSeq(name, 1, i) ELSE name

\* self.category_map.get(ext, 'Other')
category_map(ext) ==
    CASE ext \in {".png", ".jpg", ".jpeg", ".gif", ".bmp", ".svg", ".webp", ".ico", ".tiff"}
            -> "Images"
      [] ext \in {".pdf", ".doc", ".docx", ".txt", ".rtf", ".md", ".csv", ".xls", ".xlsx",
                  ".ppt", ".pptx", ".odt"}
            -> "Documents"
      [] ext \in {".mp3", ".wav", ".flac", ".aac", ".ogg", ".m4a", ".wma"} -> "Audio"
      [] ext \in {".mp4", ".avi", ".mkv", ".mov", ".wmv", ".flv", ".webm", ".m4v"} -> "Video"
      [] ext \in {".zip", ".rar", ".7z", ".tar", ".gz", ".bz2"} -> "Archives"
      [] ext \in {".py", ".js", ".html", ".css", ".java", ".cpp", ".c", ".php", ".rb",
                  ".json", ".xml", ".sql"}
            -> "Code"
      [] ext \in {".exe", ".msi", ".dmg", ".app", ".bat", ".sh"} -> "Executables"
      [] ext \in {".ttf", ".otf", ".woff", ".woff2"} -> "Fonts"
      [] OTHER -> "Other"

\* An entry of a sub-folder of the destination: a regular file, a directory
\* or a symbolic link whose target does not exist.  holds is the source
\* file it came from, "" for what was there before.
Entry(cat, name, kind, holds) == [cat |-> cat, name |-> name, kind |-> kind, holds |-> holds]

\* The entries of that name in the sub-folder cat.
EntriesAt(dir, cat, name) == {e \in dir : e.cat = cat /\ e.name = name}

\* Path.exists(): a link is followed, so one without a target does not exist.
Exists(dir, cat, name) == \E e \in EntriesAt(dir, cat, name) : e.kind # "link"

\* f"{stem}_{counter}{suffix}"
Numbered(item, counter) == Stem(item) \o "_" \o IntText(counter) \o Suffix(item)

RECURSIVE Destination(_, _, _, _, _)
\* The while loop of execute_sort from the name it is at: the first name
\* that does not exist.
Destination(dir, cat, item, name, counter) ==
    IF Exists(dir, cat, name)
    THEN Destination(dir, cat, item, Numbered(item, counter), counter + 1)
    ELSE name

\* What one run has done so far.
Sorting(source, folders, dir, out, moved_count, error_count, moves) ==
    [source |-> source, folders |-> folders, dir |-> dir, out |-> out,
     moved_count |-> moved_count, error_count |-> error_count, moves |-> moves]

\* shutil.move(item, destination) where destination is a link without a
\* target: os.rename replaces the link; where rename cannot be used (another
\* file system) copy2 opens the destination and writes through the link, to
\* the place the link names, or fails when that place cannot be created.
MoveOntoLink(f, item, cat, name, how) ==
    CASE how = "rename" ->
            Sorting(f.source \ {item}, f.folders \cup {cat},
                    (f.dir \ EntriesAt(f.dir, cat, name)) \cup {Entry(cat, name, "file", item.name)},
                    f.out, f.moved_count + 1, f.error_count,
                    Append(f.moves, [item |-> item.name, cat |-> cat, name |-> name]))
      [] how = "copy" ->
            Sorting(f.source \ {item}, f.folders \cup {cat}, f.dir,
                    f.out \cup {item.name}, f.moved_count + 1, f.error_count,
                    Append(f.moves, [item |-> item.name, cat |-> cat, name |-> name]))
      [] OTHER ->
            Sorting(f.source, f.folders \cup {cat}, f.dir, f.out,
                    f.moved_count, f.error_count + 1, f.moves)

\* The body of the loop for one item of the listing.
SortItem(f, item, how) ==
    IF item.kind # "file" THEN f
    ELSE LET cat == category_map(Lower(Suffix(item.name)))
             name == Destination(f.dir, cat, item.name, item.name, 1)
         IN  IF EntriesAt(f.dir, cat, name) # {} THEN MoveOntoLink(f, item, cat, name, how)
             ELSE Sorting(f.source \ {item}, f.folders \cup {cat},
                          f.dir \cup {Entry(cat, name, "file", item.name)},
                          f.out, f.moved_count + 1, f.error_count,
                          Append(f.moves, [item |-> item.name, cat |-> cat, name |-> name]))

RECURSIVE SortFrom(_, _, _, _)
\* for item in self.source_path.iterdir(), from the i-th item of the listing.
SortFrom(f, listing, i, how) ==
    IF i > Len(listing) THEN f
    ELSE SortFrom(SortItem(f, listing[i], how), listing, i + 1, how)

\* The orders in which iterdir() can list the entries of a folder.
Listings(entries) ==
    {l \in [1..Cardinality(entries) -> entries] :
        \A i, j \in 1..Cardinality(entries) : i # j => l[i] # l[j]}

\* execute_sort(): the folders as it leaves them, the boxes it shows and the
\* moves it made, in order.
execute_sort(confirm, listing, how) ==
    LET f0 == Sorting(source_dir, target_folders, target_dir, elsewhere, 0, 0, <<>>)
    IN  IF source_path = "" \/ target_path = "" \/ ~confirm
        THEN [f |-> f0, msgs |-> <<>>]
        ELSE LET f == SortFrom(f0, listing, 1, how)
             IN  [f |-> f,
                  msgs |-> IF f.error_count > 0
                           THEN <<Box("showwarning", "Complete with Errors", f.moved_count)>>
                           ELSE <<Box("showinfo", "Success!", f.moved_count)>>]

SifterDid(name, input, out) ==
    /\ op' = name
    /\ arg' = input
    /\ ret' = out
    /\ UNCHANGED beside_sifter

\* The buttons when a folder has been chosen and the other path is set.
Enabled(other) ==
    IF other # "" THEN [scan |-> "normal", sort |-> "normal"] ELSE sifter_btns

SelectSource ==
    \E folder \in {"", SourceFolder} :
        /\ source_path' = IF folder # "" THEN folder ELSE source_path
        /\ sifter_btns' = IF folder # "" THEN Enabled(target_path) ELSE sifter_btns
        /\ SifterDid("select_source", [k |-> "folder", path |-> folder],
                     [msgs |-> <<>>, exc |-> "", moves |-> <<>>])
        /\ UNCHANGED <<target_path, source_dir, target_folders, target_dir, elsewhere>>

SelectTarget ==
    \E folder \in {"", TargetFolder} :
        /\ target_path' = IF folder # "" THEN folder ELSE target_path
        /\ sifter_btns' = IF folder # "" THEN Enabled(source_path) ELSE sifter_btns
        /\ SifterDid("select_target", [k |-> "folder", path |-> folder],
                     [msgs |-> <<>>, exc |-> "", moves |-> <<>>])
        /\ UNCHANGED <<source_path, source_dir, target_folders, target_dir, elsewhere>>

\* The files the runs have moved so far.
MovedSoFar == Cardinality({e \in target_dir : e.holds # ""}) + Cardinality(elsewhere)

\* The names of the source folder's entries in these runs: two that differ
\* in case only, one that looks numbered, one without a suffix, and a
\* directory.
SourceEntries ==
    {[name |-> n, kind |-> "file"] : n \in {"a.png", "a.PNG", "a_1.png", "b"}}
    \cup {[name |-> "pics.png", kind |-> "dir"]}

\* What is in the destination before a run: files, directories and links
\* without a target under the names the runs will ask for.
TargetEntries ==
    {Entry(c[1], c[2], kind, "") :
        c \in {<<"Images", "a.png">>, <<"Images", "a_1.png">>, <<"Other", "b">>},
        kind \in {"file", "dir", "link"}}

\* Somebody puts an entry into the source folder.
PutSource ==
    \E e \in SourceEntries :
        /\ \A x \in source_dir : x.name # e.name
        /\ Cardinality(source_dir) + MovedSoFar < MaxItems
        /\ source_dir' = source_dir \cup {e}
        /\ SifterDid("put", e, [msgs |-> <<>>, exc |-> "", moves |-> <<>>])
        /\ UNCHANGED <<source_path, target_path, sifter_btns, target_folders, target_dir,
                       elsewhere>>

\* Somebody puts an entry into a sub-folder of the destination.
PutTarget ==
    \E e \in TargetEntries :
        /\ EntriesAt(target_dir, e.cat, e.name) = {}
        /\ Cardinality({x \in target_dir : x.holds = ""}) < MaxTaken
        /\ target_dir' = target_dir \cup {e}
        /\ target_folders' = target_folders \cup {e.cat}
        /\ SifterDid("put", e, [msgs |-> <<>>, exc |-> "", moves |-> <<>>])
        /\ UNCHANGED <<source_path, target_path, sifter_btns, source_dir, elsewhere>>

\* scan_files(): counts the files of the source folder and changes nothing.
ScanFiles ==
    /\ sifter_btns.scan = "normal"
    /\ op # "scan_files"
    /\ SifterDid("scan_files", NoInput,
                 [msgs |-> <<>>, exc |-> "",
                  moves |-> <<>>,
                  found |-> Cardinality({x \in source_dir : x.kind = "file"})])
    /\ UNCHANGED sifter_vars

\* A press of EXECUTE SORT.
ExecuteSort ==
    \E confirm \in BOOLEAN, listing \in Listings(source_dir),
       how \in {"rename", "copy", "fail"} :
        LET r == execute_sort(confirm, listing, how)
        IN  /\ sifter_btns.sort = "normal"
            /\ source_dir' = r.f.source
            /\ target_folders' = r.f.folders
            /\ target_dir' = r.f.dir
            /\ elsewhere' = r.f.out
            /\ SifterDid("execute_sort", [k |-> "confirm", yes |-> confirm],
                         [msgs |-> r.msgs, exc |-> "", moves |-> r.f.moves])
            /\ UNCHANGED <<source_path, target_path, sifter_btns>>

NextSifter ==
    \/ SelectSource
    \/ SelectTarget
    \/ PutSource
    \/ PutTarget
    \/ ScanFiles
    \/ ExecuteSort

SpecSifter == Init /\ [][NextSifter]_vars

\* The names taken in the sub-folder cat when the i-th move of a run is
\* made: those there before the run and those of its earlier moves.
TakenAt(dir, moves, i) ==
    {e.name : e \in {x \in dir : x.cat = moves[i].cat}}
    \cup {moves[j].name : j \in {k \in 1..(i - 1) : moves[k].cat = moves[i].cat}}

\* The name a file is to get among the names taken: its own when that is
\* free, else the numbered one with the smallest counter from 1 that is.
FreeName(item, taken) ==
    IF item \notin taken THEN item
    ELSE Numbered(item, CHOOSE c \in 1..(Cardinality(taken) + 1) :
                            /\ Numbered(item, c) \notin taken
                            /\ \A b \in 1..(c - 1) : Numbered(item, b) \in taken)

\* A run of execute_sort has kept every entry of the destination, put each
\* file it moved into the sub-folder of its category under the free name,
\* and written nothing elsewhere.
SortedSafely ==
    op' = "execute_sort"
    => /\ target_dir \subseteq target_dir'
       /\ elsewhere' = elsewhere
       /\ \A i \in 1..Len(ret'.moves) :
            LET m == ret'.moves[i]
            IN  /\ m.cat = category_map(Lower(Suffix(m.item)))
                /\ m.name = FreeName(m.item, TakenAt(target_dir, ret'.moves, i))
                /\ Entry(m.cat, m.name, "file", m.item) \in target_dir'

\* C30: a file execute_sort moves goes to the destination sub-folder of its
\* category and takes the place of nothing that is there: it is stored
\* under its own name, or when that is taken as <stem>_<c><suffix> with the
\* smallest free counter c >= 1.
C30_SortedSafely == [][SortedSafely]_vars

\* The destination holds no link without a target.
NoDanglingLink == \A e \in target_dir : e.kind # "link"

\* Where no name of the destination is a link without a target, the run is
\* as C30 says.
SortedSafelyWithoutLinks == [][NoDanglingLink => SortedSafely]_vars

\* A run has stored a.png as a_2.png beside a.png and a_1.png.
SecondCounterUsed ==
    /\ op = "execute_sort"
    /\ \E i \in 1..Len(ret.moves) : ret.moves[i].item = "a.png" /\ ret.moves[i].name = "a_2.png"
    /\ Entry("Images", "a_2.png", "file", "a.png") \in target_dir

\* A run has written a file through a link, outside the destination.
WrittenElsewhere == op = "execute_sort" /\ elsewhere # {}

====
